---- MODULE Spec2Model ----
(***************************************************************************)
(* Model of the wsjtx_lib_nodejs native extension: the bridge loader, the  *)
(* per-instance facade (WSJTXLibWrapper), the typed wrapper (WSJTXLib),    *)
(* the async workers (Decode / Encode / AudioConvert) and the C bridge     *)
(* around the compute library's message queue.                             *)
(***************************************************************************)
EXTENDS Integers, Sequences, FiniteSets, TLC

\* ---------------------------------------------------------------- bounds
MaxInst == 2        \* native objects constructed in one run
MaxTasks == 2       \* async workers created in one run
PoolSize == 2       \* background threads that may run Execute() at once
MaxMsgs == 3        \* messages the compute library produces in one run
MsgsPerDecode == 2  \* most messages one decode() call enqueues

\* ------------------------------------------------------ program constants
WSJTX_OK == 0
WSJTX_ERR_INVALID_HANDLE == -1
WSJTX_ERR_INVALID_PARAM == -3
WSJTX_ERR_NULL_POINTER == -4
WSJTX_ERR_BUFFER_TOO_SMALL == -5
WSJTX_ERR_DECODE_FAILED == -10
WSJTX_ERR_ENCODE_FAILED == -11
WSJTX_ERR_OUT_OF_MEMORY == -12
WSJTX_ERR_INTERNAL == -99

\* sizeof(wsjtx_message_t.message)
MessageSize == 80

\* The scale and the limits of a 16-bit sample
Int16Scale == 32768
Int16Min == -32768
Int16Max == 32767

MaxFrequency == 30000000
MaxThreadCount == 16
MaxMessageLength == 22

\* wsjtxMode as the native side declares it
FT8 == 0
FT4 == 1
JT4 == 2
JT65 == 3
JT9 == 4
WSPR == 6
FST4 == 8
Q65 == 9
FST4W == 10

\* WSJTXMode of the typed wrapper: the numeric members 0..8
TSModeLast == 8
WSJTXMode == 0..TSModeLast

\* The members of the typed wrapper's enum WSJTXMode
WSJTXMode_FT8 == 0
WSJTXMode_FT4 == 1
WSJTXMode_JT4 == 2
WSJTXMode_JT65 == 3
WSJTXMode_JT9 == 4
WSJTXMode_FST4 == 5
WSJTXMode_Q65 == 6
WSJTXMode_FST4W == 7
WSJTXMode_WSPR == 8

\* wsjtx_mode_t of the bridge
WSJTX_MODE_FT8 == 0
WSJTX_MODE_FT4 == 1
WSJTX_MODE_JT65 == 2
WSJTX_MODE_WSPR == 3

\* The worker has not reached decode() or encode() of the compute library
NoLibCall == -1

NullHandle == 0

\* A pointer argument of a bridge function: null, or to storage of the caller
NullPtr == 0
ValidPtr == 1

FnNames == {"wsjtx_create", "wsjtx_destroy", "wsjtx_decode", "wsjtx_pull_message",
            "wsjtx_encode", "wsjtx_get_sample_rate", "wsjtx_get_max_samples"}

HandleIds == 1..MaxInst
TaskIds == 1..MaxTasks
MsgIds == 1..MaxMsgs

VARIABLES
    obj,        \* the native object: loader state, dll_handle_, lib_handle_, function pointers
    gen,        \* number of constructions so far (the next handle create() returns is gen + 1)
    libSt,      \* bridge side: state of every handle create() has returned
    queue,      \* bridge side: the message FIFO behind every handle
    nextMsg,    \* number of messages the compute library has produced
    tasks,      \* the async workers
    host,       \* position of the host thread, and what the caller's typed array holds
    lastCall,   \* arguments and outcome of the latest decode/encode/convert call
    pullLog,    \* result of the latest pullMessages() and the messages returned so far
    ghost,      \* call counters of create / destroy / free
    crashed,    \* the process has faulted
    sys,        \* the build (platform) and the process-wide DLL search directory
    probe       \* what the host holds right now: the value a query returned,
                \* the status of a bridge call, or the arguments of a callback

vars == <<obj, gen, libSt, queue, nextMsg, tasks, host, lastCall, pullLog, ghost, crashed,
          sys, probe>>

\* ------------------------------------------------------------------ loader

NullObj == [st |-> "Unloaded", dll |-> FALSE, lib |-> NullHandle, fns |-> {}, err |-> "",
            msg |-> {}]

\* UnloadBridge() that frees the library before it destroys the handle
UnloadBridge_freeFirst(o) ==
    LET callDestroy == o.lib # NullHandle /\ "wsjtx_destroy" \in o.fns
    IN  [obj    |-> [o EXCEPT !.dll = FALSE,
                              !.lib = IF callDestroy THEN NullHandle ELSE o.lib,
                              !.fns = {}],
         events |-> (IF o.dll THEN <<[ev |-> "free", h |-> o.lib]>> ELSE <<>>)
                    \o (IF callDestroy THEN <<[ev |-> "destroy", h |-> o.lib]>> ELSE <<>>)]

\* UnloadBridge(): destroy the handle, free the library, clear the pointers.
\* events is the order in which destroy() and FREE_LIBRARY are called.
UnloadBridge(o) ==
    LET callDestroy == o.lib # NullHandle /\ "wsjtx_destroy" \in o.fns
    IN  [obj    |-> [o EXCEPT !.dll = FALSE,
                              !.lib = IF callDestroy THEN NullHandle ELSE o.lib,
                              !.fns = {}],
         events |-> (IF callDestroy THEN <<[ev |-> "destroy", h |-> o.lib]>> ELSE <<>>)
                    \o (IF o.dll THEN <<[ev |-> "free", h |-> o.lib]>> ELSE <<>>)]

\* wsjtx_create(): a fresh handle, or null when the allocation throws.
wsjtx_create(ok, fresh) == IF ok THEN fresh ELSE NullHandle

\* A check that forgets the last symbol
AllResolved_six(fns) ==
    /\ "wsjtx_create" \in fns
    /\ "wsjtx_destroy" \in fns
    /\ "wsjtx_decode" \in fns
    /\ "wsjtx_pull_message" \in fns
    /\ "wsjtx_encode" \in fns
    /\ "wsjtx_get_sample_rate" \in fns

\* The check of LoadBridge that every symbol was resolved.
AllResolved(fns) ==
    /\ "wsjtx_create" \in fns
    /\ "wsjtx_destroy" \in fns
    /\ "wsjtx_decode" \in fns
    /\ "wsjtx_pull_message" \in fns
    /\ "wsjtx_encode" \in fns
    /\ "wsjtx_get_sample_rate" \in fns
    /\ "wsjtx_get_max_samples" \in fns

\* Build configurations: a Unix build, a Windows build with a non-MSVC
\* compiler, a Windows build with MSVC.
Platforms == {"unix", "win32", "win32-msvc"}

\* #ifdef _WIN32
IsWin32(platform) == platform \in {"win32", "win32-msvc"}

\* WSJTX_WINDOWS_MSVC_MODE
WSJTX_WINDOWS_MSVC_MODE(platform) == platform = "win32-msvc"

\* The process-wide DLL search directory: none set, one the host process set
\* before, or the directory of the bridge library.
DllDirs == {"default", "custom", "bridge"}

\* The try block of LoadBridge() on a freshly constructed object that forgets
\* UnloadBridge() when create() returns null
LoadBridgeBody_keepOnNull(o, platform, dir, pathOk, libFound, exported, createOk, fresh) ==
    IF ~pathOk
    THEN [obj |-> [o EXCEPT !.st = "Failed", !.err = "path"], events |-> <<>>,
          dllDir |-> dir, thrown |-> TRUE]
    ELSE LET set == IF IsWin32(platform) THEN "bridge" ELSE dir
         IN  IF ~libFound
             THEN [obj |-> [o EXCEPT !.st = "Failed", !.err = "load",
                                     !.msg = {"loaderError"}],
                   events |-> <<>>, dllDir |-> set, thrown |-> TRUE]
             ELSE LET o1 == [o EXCEPT !.dll = TRUE, !.fns = exported]
                      restored == IF IsWin32(platform) THEN "default" ELSE set
                  IN  IF ~AllResolved(o1.fns)
                      THEN LET u == UnloadBridge(o1)
                           IN  [obj |-> [u.obj EXCEPT !.st = "Failed", !.err = "symbol"],
                                events |-> u.events, dllDir |-> restored, thrown |-> TRUE]
                      ELSE LET h  == wsjtx_create(createOk, fresh)
                               o2 == [o1 EXCEPT !.lib = h]
                               c  == <<[ev |-> "create", h |-> h]>>
                           IN  IF h = NullHandle
                               THEN [obj |-> [o2 EXCEPT !.st = "Failed", !.err = "create"],
                                     events |-> c, dllDir |-> restored, thrown |-> TRUE]
                               ELSE [obj |-> [o2 EXCEPT !.st = "Ready"], events |-> c,
                                     dllDir |-> restored, thrown |-> FALSE]

\* The try block of LoadBridge() on a freshly constructed object.
\*   platform  the build configuration
\*   dir       the DLL search directory of the process before the load
\*   pathOk    GetBridgePath() found the module path
\*   libFound  LOAD_LIBRARY returned a handle
\*   exported  the symbols GET_SYMBOL resolves
\*   createOk  wsjtx_create() returned a handle
\* err names the exception the block leaves with, msg what its message
\* carries: the attempted path ("path"), the loader's error ("loaderError").
LoadBridgeBody(o, platform, dir, pathOk, libFound, exported, createOk, fresh) ==
    IF ~pathOk
    THEN [obj |-> [o EXCEPT !.st = "Failed", !.err = "path"], events |-> <<>>,
          dllDir |-> dir, thrown |-> TRUE]
    ELSE LET set == IF IsWin32(platform) THEN "bridge" ELSE dir
         IN  IF ~libFound
             THEN [obj |-> [o EXCEPT !.st = "Failed", !.err = "load",
                                     !.msg = {"loaderError"}],
                   events |-> <<>>, dllDir |-> set, thrown |-> TRUE]
             ELSE LET o1 == [o EXCEPT !.dll = TRUE, !.fns = exported]
                      restored == IF IsWin32(platform) THEN "default" ELSE set
                  IN  IF ~AllResolved(o1.fns)
                      THEN LET u == UnloadBridge(o1)
                           IN  [obj |-> [u.obj EXCEPT !.st = "Failed", !.err = "symbol"],
                                events |-> u.events, dllDir |-> restored, thrown |-> TRUE]
                      ELSE LET h  == wsjtx_create(createOk, fresh)
                               o2 == [o1 EXCEPT !.lib = h]
                               c  == <<[ev |-> "create", h |-> h]>>
                           IN  IF h = NullHandle
                               THEN LET u == UnloadBridge(o2)
                                    IN  [obj |-> [u.obj EXCEPT !.st = "Failed",
                                                               !.err = "create"],
                                         events |-> c \o u.events, dllDir |-> restored,
                                         thrown |-> TRUE]
                               ELSE [obj |-> [o2 EXCEPT !.st = "Ready"], events |-> c,
                                     dllDir |-> restored, thrown |-> FALSE]

\* LoadBridge(): the try block and its catch clause, which on Windows calls
\* SetDllDirectoryW(nullptr) before it rethrows.
LoadBridge(o, platform, dir, pathOk, libFound, exported, createOk, fresh) ==
    LET r == LoadBridgeBody(o, platform, dir, pathOk, libFound, exported, createOk, fresh)
    IN  [obj    |-> r.obj,
         events |-> r.events,
         dllDir |-> IF r.thrown /\ IsWin32(platform) THEN "default" ELSE r.dllDir]

\* Bookkeeping of the bridge calls the loader makes, in order.
RECURSIVE ApplyEvents(_, _, _)
ApplyEvents(evs, ls, g) ==
    IF evs = <<>> THEN [libSt |-> ls, ghost |-> g]
    ELSE LET e == Head(evs)
         IN  CASE e.ev = "create" ->
                    ApplyEvents(Tail(evs),
                        IF e.h # NullHandle THEN [ls EXCEPT ![e.h] = "alive"] ELSE ls,
                        [g EXCEPT !.creates = @ + 1])
               [] e.ev = "destroy" ->
                    ApplyEvents(Tail(evs),
                        IF e.h # NullHandle THEN [ls EXCEPT ![e.h] = "destroyed"] ELSE ls,
                        IF e.h = NullHandle
                        THEN [g EXCEPT !.nullDestroy = TRUE]
                        ELSE [g EXCEPT !.destroys[e.h] = @ + 1])
               [] e.ev = "free" ->
                    ApplyEvents(Tail(evs), ls,
                        IF e.h # NullHandle /\ ls[e.h] = "alive"
                        THEN [g EXCEPT !.freedAlive = TRUE]
                        ELSE g)

\* ------------------------------------------------------- capability table

\* MODE_INFO: the modes the native table has an entry for
ModeInfoKeys == {FT8, FT4, JT4, JT65, JT9, FST4, Q65, FST4W, WSPR}

\* One row of MODE_INFO; the duration is in hundredths of a second.
ModeInfo(sampleRate, duration, encodingSupported, decodingSupported) ==
    [sampleRate |-> sampleRate, duration |-> duration,
     encodingSupported |-> encodingSupported, decodingSupported |-> decodingSupported]

\* MODE_INFO, keyed by the native enum wsjtxMode
MODE_INFO(mode) ==
    CASE mode = FT8   -> ModeInfo(48000, 1264, TRUE, TRUE)
      [] mode = FT4   -> ModeInfo(48000, 600, TRUE, TRUE)
      [] mode = JT4   -> ModeInfo(11025, 4710, FALSE, TRUE)
      [] mode = JT65  -> ModeInfo(11025, 4680, FALSE, TRUE)
      [] mode = JT9   -> ModeInfo(12000, 4900, FALSE, TRUE)
      [] mode = FST4  -> ModeInfo(12000, 6000, FALSE, TRUE)
      [] mode = Q65   -> ModeInfo(12000, 6000, FALSE, TRUE)
      [] mode = FST4W -> ModeInfo(12000, 12000, FALSE, TRUE)
      [] mode = WSPR  -> ModeInfo(12000, 11060, FALSE, TRUE)
      [] OTHER        -> ModeInfo(0, 0, FALSE, FALSE)

\* An encoding check that only looks for a row of the table
IsEncodingSupported_anyRow(mode) == mode \in ModeInfoKeys

\* WSJTXLibWrapper::IsEncodingSupported / IsDecodingSupported
IsEncodingSupported(mode) == mode \in ModeInfoKeys /\ MODE_INFO(mode).encodingSupported
IsDecodingSupported(mode) == mode \in ModeInfoKeys /\ MODE_INFO(mode).decodingSupported

\* ------------------------------------------------------ native validation
\* Each Validate* returns TRUE when the native helper does not throw.

ValidateMode(mode) == ~(mode < 0 \/ mode > WSPR)
ValidateFrequency(frequency) == ~(frequency < 0 \/ frequency > MaxFrequency)
ValidateThreads(threads) == ~(threads < 1 \/ threads > MaxThreadCount)
ValidateMessage(len) == ~(len = 0 \/ len > MaxMessageLength)

\* WSJTXLibWrapper::Decode: "queued" when a DecodeWorker was queued, "throw"
\* when a JavaScript exception was raised instead.
NativeDecode(mode, ty, len, frequency, threads) ==
    IF ~(ValidateMode(mode) /\ ValidateFrequency(frequency) /\ ValidateThreads(threads))
    THEN "throw"
    ELSE IF ty \in {"f32", "i16"} THEN "queued" ELSE "throw"

\* WSJTXLibWrapper::Encode
NativeEncode(mode, len, frequency, threads) ==
    IF ~(ValidateMode(mode) /\ ValidateFrequency(frequency)
         /\ ValidateThreads(threads) /\ ValidateMessage(len))
    THEN "throw"
    ELSE IF ~IsEncodingSupported(mode) THEN "throw" ELSE "queued"

\* WSJTXLibWrapper::ConvertAudioFormat
NativeConvert(ty, tgt) ==
    IF ty \notin {"f32", "i16"} THEN "throw"
    ELSE IF tgt \notin {"float32", "int16"} THEN "throw"
    ELSE "queued"

\* WSJTXLibWrapper::DecodeWSPR: the message of the JavaScript exception it
\* raises; no path of it creates a worker.
NativeDecodeWSPR(platform, ty, len) ==
    IF WSJTX_WINDOWS_MSVC_MODE(platform)
    THEN "WSPR decode is not currently supported in Windows MSVC mode"
    ELSE IF ty \notin {"f32", "i16"} THEN "Invalid argument types"
    ELSE IF len % 2 # 0 THEN "IQ data length must be even (interleaved I,Q samples)"
    ELSE "WSPR decoding is not yet supported in the current bridge architecture"

\* ------------------------------------------------ typed wrapper validation

validateMode(mode) == mode \in WSJTXMode
validateFrequency(frequency) == ~(frequency < 0 \/ frequency > MaxFrequency)
validateThreads(threads) == ~(threads < 1 \/ threads > MaxThreadCount)
validateMessage(len) == ~(len = 0 \/ len > MaxMessageLength)
\* validateAudioData without the test for an empty buffer
validateAudioData_noLength(ty, len) == ty \in {"f32", "i16"}

validateAudioData(ty, len) ==
    IF ty \notin {"f32", "i16"} THEN FALSE
    ELSE len # 0

\* WSJTXLib.decode: the error code the promise is rejected with before any
\* task exists, or "queued".
TSDecode(mode, ty, len, frequency, threads) ==
    IF ~validateMode(mode) THEN "INVALID_MODE"
    ELSE IF ~validateFrequency(frequency) THEN "INVALID_FREQUENCY"
    ELSE IF ~validateThreads(threads) THEN "INVALID_THREADS"
    ELSE IF ~validateAudioData(ty, len) THEN "INVALID_AUDIO_DATA"
    ELSE IF ~IsDecodingSupported(mode) THEN "UNSUPPORTED_MODE"
    ELSE IF NativeDecode(mode, ty, len, frequency, threads) = "throw" THEN "DECODE_ERROR"
    ELSE "queued"

validateIQData(ty, len) ==
    IF ty # "f32" THEN FALSE
    ELSE ~(len = 0 \/ len % 2 # 0)

\* WSJTXLib.decodeWSPR: the error code the promise is rejected with; it would
\* be resolved with the callback's array, but the native call always raises.
TSDecodeWSPR(platform, ty, len) ==
    IF ~validateIQData(ty, len) THEN "INVALID_IQ_DATA"
    ELSE IF NativeDecodeWSPR(platform, ty, len) # "" THEN "WSPR_DECODE_ERROR"
    ELSE "queued"

\* WSJTXLib.encode
TSEncode(mode, len, frequency, threads) ==
    IF ~validateMode(mode) THEN "INVALID_MODE"
    ELSE IF ~validateMessage(len) THEN "INVALID_MESSAGE"
    ELSE IF ~validateFrequency(frequency) THEN "INVALID_FREQUENCY"
    ELSE IF ~validateThreads(threads) THEN "INVALID_THREADS"
    ELSE IF ~IsEncodingSupported(mode) THEN "UNSUPPORTED_MODE"
    ELSE IF NativeEncode(mode, len, frequency, threads) = "throw" THEN "ENCODE_ERROR"
    ELSE "queued"

\* ------------------------------------------------------------- C bridge

\* Bytes behind the message buffer that are watched for writes
Overrun == 4

\* A copy that stops only at the end of the source
strncpy_unbounded(dst, src, n) ==
    [i \in 1..Len(dst) |-> IF i <= Len(src) THEN src[i]
                           ELSE IF i = Len(src) + 1 THEN 0
                           ELSE dst[i]]

\* strncpy(dst, src, n) on the memory that starts at dst: exactly n bytes are
\* written, the characters of src and, once src has ended, NUL bytes.
strncpy(dst, src, n) ==
    [i \in 1..Len(dst) |-> IF i > n THEN dst[i]
                           ELSE IF i <= Len(src) THEN src[i]
                           ELSE 0]

\* wsjtx_pull_message filling message->message from the library's text
CopyMessageText(mem, text) ==
    [strncpy(mem, text, MessageSize - 1) EXCEPT ![MessageSize] = 0]

\* What the compute library does inside one call: it returns, or throws one
\* of the exception classes the bridge distinguishes.
LibOutcomes == {"ok", "invalid_argument", "bad_alloc", "exception", "unknown"}

\* get_max_samples_internal over get_sample_rate_internal
get_sample_rate_internal(mode) == 12000
get_max_samples_internal(mode) ==
    CASE mode = 0 -> get_sample_rate_internal(mode) * 15
      [] mode = 1 -> get_sample_rate_internal(mode) * 7
      [] mode = 2 -> get_sample_rate_internal(mode) * 60
      [] mode = 3 -> get_sample_rate_internal(mode) * 120
      [] OTHER    -> get_sample_rate_internal(mode) * 15

\* static_cast<wsjtx_mode_t>(mode_): the number is kept, whatever it named
ToBridgeMode(mode) == mode

\* convert_mode: the wsjtxMode the library is called with
convert_mode(mode) ==
    CASE mode = WSJTX_MODE_FT8  -> FT8
      [] mode = WSJTX_MODE_FT4  -> FT4
      [] mode = WSJTX_MODE_JT65 -> JT65
      [] mode = WSJTX_MODE_WSPR -> WSPR
      [] OTHER                  -> FT8

\* The wsjtxMode that decode() / encode() of the library gets from a worker
\* whose mode_ is mode, when the bridge function gets as far as the library
LibraryMode(handle, paramsOk, mode) ==
    IF handle = NullHandle \/ ~paramsOk THEN NoLibCall
    ELSE convert_mode(ToBridgeMode(mode))

\* The protocol a member of the typed wrapper's WSJTXMode names
WSJTXModeName(mode) ==
    CASE mode = WSJTXMode_FT8   -> "FT8"
      [] mode = WSJTXMode_FT4   -> "FT4"
      [] mode = WSJTXMode_JT4   -> "JT4"
      [] mode = WSJTXMode_JT65  -> "JT65"
      [] mode = WSJTXMode_JT9   -> "JT9"
      [] mode = WSJTXMode_FST4  -> "FST4"
      [] mode = WSJTXMode_Q65   -> "Q65"
      [] mode = WSJTXMode_FST4W -> "FST4W"
      [] mode = WSJTXMode_WSPR  -> "WSPR"
      [] OTHER                  -> "undefined"

\* The protocol a member of the native wsjtxMode names
wsjtxModeName(mode) ==
    CASE mode = FT8   -> "FT8"
      [] mode = FT4   -> "FT4"
      [] mode = JT4   -> "JT4"
      [] mode = JT65  -> "JT65"
      [] mode = JT9   -> "JT9"
      [] mode = 5     -> "FT2"
      [] mode = WSPR  -> "WSPR"
      [] mode = 7     -> "ECHO"
      [] mode = FST4  -> "FST4"
      [] mode = Q65   -> "Q65"
      [] mode = FST4W -> "FST4W"
      [] OTHER        -> "none"

\* wsjtx_decode: the status returned for a handle, the pointer to the
\* samples, a sample count and what the library's decode() did.
wsjtx_decode(handle, audio_samples, sample_count, outcome) ==
    IF handle = NullHandle THEN WSJTX_ERR_INVALID_HANDLE
    ELSE IF audio_samples = NullPtr \/ sample_count <= 0 THEN WSJTX_ERR_INVALID_PARAM
    ELSE CASE outcome = "ok"               -> WSJTX_OK
           [] outcome = "invalid_argument" -> WSJTX_ERR_INVALID_PARAM
           [] outcome = "bad_alloc"        -> WSJTX_ERR_OUT_OF_MEMORY
           [] outcome = "exception"        -> WSJTX_ERR_DECODE_FAILED
           [] OTHER                        -> WSJTX_ERR_INTERNAL

\* What wsjtx_encode leaves behind: its status, the number of samples it
\* wrote to output_samples and the value of *output_sample_count.
EncodeReturn(ret, written, count) == [ret |-> ret, written |-> written, count |-> count]

\* A wsjtx_encode that copies the waveform without looking at the capacity
wsjtx_encode_noSizeCheck(handle, message, output_samples, output_sample_count, capacity, size, outcome) ==
    IF handle = NullHandle THEN EncodeReturn(WSJTX_ERR_INVALID_HANDLE, 0, capacity)
    ELSE IF message = NullPtr \/ output_samples = NullPtr \/ output_sample_count = NullPtr
    THEN EncodeReturn(WSJTX_ERR_NULL_POINTER, 0, capacity)
    ELSE IF capacity <= 0 THEN EncodeReturn(WSJTX_ERR_INVALID_PARAM, 0, capacity)
    ELSE CASE outcome = "ok"               -> EncodeReturn(WSJTX_OK, size, size)
           [] outcome = "invalid_argument" -> EncodeReturn(WSJTX_ERR_INVALID_PARAM, 0, capacity)
           [] outcome = "bad_alloc"        -> EncodeReturn(WSJTX_ERR_OUT_OF_MEMORY, 0, capacity)
           [] outcome = "exception"        -> EncodeReturn(WSJTX_ERR_ENCODE_FAILED, 0, capacity)
           [] OTHER                        -> EncodeReturn(WSJTX_ERR_INTERNAL, 0, capacity)

\* A wsjtx_encode that fills the buffer before it checks the size
wsjtx_encode_partial(handle, message, output_samples, output_sample_count, capacity, size, outcome) ==
    IF handle = NullHandle THEN EncodeReturn(WSJTX_ERR_INVALID_HANDLE, 0, capacity)
    ELSE IF message = NullPtr \/ output_samples = NullPtr \/ output_sample_count = NullPtr
    THEN EncodeReturn(WSJTX_ERR_NULL_POINTER, 0, capacity)
    ELSE IF capacity <= 0 THEN EncodeReturn(WSJTX_ERR_INVALID_PARAM, 0, capacity)
    ELSE CASE outcome = "ok" ->
                IF size > capacity
                THEN EncodeReturn(WSJTX_ERR_BUFFER_TOO_SMALL, capacity, capacity)
                ELSE EncodeReturn(WSJTX_OK, size, size)
           [] outcome = "invalid_argument" -> EncodeReturn(WSJTX_ERR_INVALID_PARAM, 0, capacity)
           [] outcome = "bad_alloc"        -> EncodeReturn(WSJTX_ERR_OUT_OF_MEMORY, 0, capacity)
           [] outcome = "exception"        -> EncodeReturn(WSJTX_ERR_ENCODE_FAILED, 0, capacity)
           [] OTHER                        -> EncodeReturn(WSJTX_ERR_INTERNAL, 0, capacity)

\* wsjtx_encode for a handle, its three pointer arguments, the capacity
\* passed in *output_sample_count (read when that pointer is not null),
\* the size of the waveform the library produces and what the library's
\* encode() did: the copy to output_samples happens after the size check and
\* after everything that can throw.
wsjtx_encode(handle, message, output_samples, output_sample_count, capacity, size, outcome) ==
    IF handle = NullHandle THEN EncodeReturn(WSJTX_ERR_INVALID_HANDLE, 0, capacity)
    ELSE IF message = NullPtr \/ output_samples = NullPtr \/ output_sample_count = NullPtr
    THEN EncodeReturn(WSJTX_ERR_NULL_POINTER, 0, capacity)
    ELSE IF capacity <= 0 THEN EncodeReturn(WSJTX_ERR_INVALID_PARAM, 0, capacity)
    ELSE CASE outcome = "ok" ->
                IF size > capacity
                THEN EncodeReturn(WSJTX_ERR_BUFFER_TOO_SMALL, 0, capacity)
                ELSE EncodeReturn(WSJTX_OK, size, size)
           [] outcome = "invalid_argument" -> EncodeReturn(WSJTX_ERR_INVALID_PARAM, 0, capacity)
           [] outcome = "bad_alloc"        -> EncodeReturn(WSJTX_ERR_OUT_OF_MEMORY, 0, capacity)
           [] outcome = "exception"        -> EncodeReturn(WSJTX_ERR_ENCODE_FAILED, 0, capacity)
           [] OTHER                        -> EncodeReturn(WSJTX_ERR_INTERNAL, 0, capacity)

\* The library's pullMessage(): removes and returns the head of the FIFO.
LibPullMessage(q) ==
    IF q = <<>> THEN [has |-> FALSE, msg |-> 0, q |-> q]
    ELSE [has |-> TRUE, msg |-> Head(q), q |-> Tail(q)]

\* wsjtx_pull_message: 1 with the message, 0 when the queue is empty, a
\* negative code when the handle or the struct pointer is null or the
\* library throws.
wsjtx_pull_message(handle, message, q, outcome) ==
    IF handle = NullHandle \/ message = NullPtr
    THEN [ret |-> WSJTX_ERR_INVALID_HANDLE, msg |-> 0, q |-> q]
    ELSE CASE outcome = "ok" ->
                LET r == LibPullMessage(q)
                IN  [ret |-> IF r.has THEN 1 ELSE 0, msg |-> r.msg, q |-> r.q]
           [] outcome \in {"invalid_argument", "bad_alloc", "exception"} ->
                [ret |-> WSJTX_ERR_INVALID_HANDLE, msg |-> 0, q |-> q]
           [] OTHER ->
                [ret |-> WSJTX_ERR_INTERNAL, msg |-> 0, q |-> q]

\* hh, min, sec, snr, sync, dt and freq of the library's message number id
MessageFields(id) == <<id, id + 1, id + 2, 0 - id, id, id, 1000 + id>>

\* A wsjtx_pull_message that terminates the text before it asks the library
FillMessage_terminateFirst(message, r, text) ==
    IF r.ret # 1
    THEN [message EXCEPT !.text[MessageSize] = 0]
    ELSE [hdr |-> MessageFields(r.msg), text |-> CopyMessageText(message.text, text)]

\* What wsjtx_pull_message leaves in the caller's wsjtx_message_t (hdr: the
\* seven numeric fields, text: the bytes of message[] and those behind it)
\* when its status and the library's message are r and the message's text
\* is text: the struct is filled only on the path that returns 1.
FillMessage(message, r, text) ==
    IF r.ret # 1
    THEN message
    ELSE [hdr |-> MessageFields(r.msg), text |-> CopyMessageText(message.text, text)]

\* The exported wsjtx_get_sample_rate / wsjtx_get_max_samples
wsjtx_get_sample_rate(mode) == get_sample_rate_internal(mode)
wsjtx_get_max_samples(mode) == get_max_samples_internal(mode)

\* ------------------------------------------------------ capability queries

\* ConvertToWSJTXMode: a cast of the number the host passed
ConvertToWSJTXMode(mode) == mode

\* WSJTXLibWrapper::GetSampleRate
GetSampleRate(platform, mode) ==
    LET wsjtxModeVal == ConvertToWSJTXMode(mode)
        fromTable == IF wsjtxModeVal \in ModeInfoKeys
                     THEN MODE_INFO(wsjtxModeVal).sampleRate ELSE 12000
    IN  IF WSJTX_WINDOWS_MSVC_MODE(platform)
        THEN LET sampleRate == wsjtx_get_sample_rate(wsjtxModeVal)
             IN  IF sampleRate <= 0 THEN fromTable ELSE sampleRate
        ELSE fromTable

\* WSJTXLibWrapper::GetTransmissionDuration, in hundredths of a second
GetTransmissionDuration(mode) ==
    LET wsjtxModeVal == ConvertToWSJTXMode(mode)
    IN  IF wsjtxModeVal \in ModeInfoKeys THEN MODE_INFO(wsjtxModeVal).duration ELSE 6000

\* The README's table of supported modes, by the member of the typed
\* wrapper's enum; the duration is in tenths of a second as printed there.
SupportedModes(mode) ==
    CASE mode = WSJTXMode_FT8   -> [encoding |-> TRUE,  decoding |-> TRUE, sampleRate |-> 48000, duration |-> 126]
      [] mode = WSJTXMode_FT4   -> [encoding |-> TRUE,  decoding |-> TRUE, sampleRate |-> 48000, duration |-> 60]
      [] mode = WSJTXMode_JT4   -> [encoding |-> FALSE, decoding |-> TRUE, sampleRate |-> 11025, duration |-> 471]
      [] mode = WSJTXMode_JT65  -> [encoding |-> FALSE, decoding |-> TRUE, sampleRate |-> 11025, duration |-> 468]
      [] mode = WSJTXMode_JT9   -> [encoding |-> FALSE, decoding |-> TRUE, sampleRate |-> 12000, duration |-> 490]
      [] mode = WSJTXMode_FST4  -> [encoding |-> FALSE, decoding |-> TRUE, sampleRate |-> 12000, duration |-> 600]
      [] mode = WSJTXMode_Q65   -> [encoding |-> FALSE, decoding |-> TRUE, sampleRate |-> 12000, duration |-> 600]
      [] mode = WSJTXMode_FST4W -> [encoding |-> FALSE, decoding |-> TRUE, sampleRate |-> 12000, duration |-> 1200]
      [] mode = WSJTXMode_WSPR  -> [encoding |-> FALSE, decoding |-> TRUE, sampleRate |-> 12000, duration |-> 1106]

\* ------------------------------------------------------- sample conversion
\* A float sample is a number, NaN or an infinity. A number is kept exactly,
\* as a multiple k of 1 / (SubSteps * Int16Scale): k / SubSteps is the sample
\* times 32768, so SubSteps values lie between two neighbouring 16-bit steps.

SubSteps == 4
One == SubSteps * Int16Scale

Num(k) == [c |-> "num", k |-> k]
NaN == [c |-> "nan", k |-> 0]
PosInf == [c |-> "inf", k |-> 1]
NegInf == [c |-> "inf", k |-> -1]

\* std::lround(k / SubSteps): to the nearest integer, halves away from zero
lround(k) ==
    IF k >= 0 THEN (2 * k + SubSteps) \div (2 * SubSteps)
    ELSE -((2 * (-k) + SubSteps) \div (2 * SubSteps))

\* Math.round(k / SubSteps): to the nearest integer, halves upwards
MathRound(k) == (2 * k + SubSteps) \div (2 * SubSteps)

\* A clamp to the symmetric range [-32767, 32767]
Clamp16_symmetric(i) ==
    IF i > Int16Max THEN Int16Max ELSE IF i < -Int16Max THEN -Int16Max ELSE i

\* (std::max)(-32768, (std::min)(32767, i)), Math.max(-32768, Math.min(32767, i))
Clamp16(i) == IF i > Int16Max THEN Int16Max ELSE IF i < Int16Min THEN Int16Min ELSE i

\* What static_cast<int>(std::lround(NaN)) may be: the result is unspecified
UnspecifiedInts == {-2147483647, 0, 2147483647}

\* A float-to-int16 that casts to short without clamping anything
FloatToInt16_wrap(v) ==
    IF v.c = "nan" THEN UnspecifiedInts
    ELSE LET k == IF v.c = "inf" THEN v.k * 2 * One ELSE v.k
             i == lround(k)
         IN  {((i + Int16Scale) % (2 * Int16Scale)) - Int16Scale}

\* The float-to-int16 branch of AudioConvertWorker::Execute for one sample:
\* clamp to [-1, 1], scale, round, clamp to the 16-bit limits. The result is
\* the set of values the statement can produce.
FloatToInt16(v) ==
    IF v.c = "nan" THEN {Clamp16(x) : x \in UnspecifiedInts}
    ELSE LET k == IF v.c = "inf" THEN v.k * 2 * One ELSE v.k
             clamped == IF k > One THEN One ELSE IF k < -One THEN -One ELSE k
         IN  {Clamp16(lround(clamped))}

\* An int16-to-float that divides by the wrong scale
Int16ToFloat_halfScale(i) == Num(i * SubSteps * 2)

\* static_cast<float>(i) / 32768.0f, and audioData[i] / 32768.0
Int16ToFloat(i) == Num(i * SubSteps)

\* The float-to-int16 branch of the typed wrapper's convertAudioFormat for
\* one sample; a NaN is stored in an Int16Array as 0.
TSFloatToInt16(v) ==
    IF v.c = "nan" THEN {0}
    ELSE LET k == IF v.c = "inf" THEN v.k * 2 * One ELSE v.k
         IN  {Clamp16(MathRound(k))}

\* The buffers a loop over the samples can fill, given for each sample the
\* values its conversion can produce
Converted(outs) ==
    {o \in [1..Len(outs) -> UNION {outs[i] : i \in 1..Len(outs)}] :
        \A i \in 1..Len(outs) : o[i] \in outs[i]}

\* AudioConvertWorker::Execute: the buffers it can leave in floatOut_ (target
\* "float32") or intOut_ (target "int16")
ConvertSamples(fromFloat, target, input) ==
    IF fromFloat
    THEN IF target = "float32" THEN {input} ELSE Converted([i \in 1..Len(input) |-> FloatToInt16(input[i])])
    ELSE IF target = "int16" THEN {input}
         ELSE {[i \in 1..Len(input) |-> Int16ToFloat(input[i])]}

\* WSJTXLib.convertAudioFormat of the typed wrapper
convertAudioFormat(isFloat, targetFormat, audioData) ==
    IF targetFormat = "float32"
    THEN IF isFloat THEN {audioData}
         ELSE {[i \in 1..Len(audioData) |-> Int16ToFloat(audioData[i])]}
    ELSE IF ~isFloat THEN {audioData}
         ELSE Converted([i \in 1..Len(audioData) |-> TSFloatToInt16(audioData[i])])

\* ---------------------------------------------------------- async workers

\* A worker: its kind and position, the handle, mode and input size it
\* copied, whether SetError was called (err) and the status its message
\* quotes (errCode), the status the bridge returned (ret), the size of
\* audioData_ (len), messageSent_ (sent), and how often its callback ran.
\* aw names the workers whose callback the caller had got when it submitted
\* this one; lib is the wsjtxMode its bridge call gave the compute library.
\* wr is the number of samples the bridge wrote to an encode worker's
\* output buffer, len the size of the audioData trimmed from it.
\* A decode worker also has the samples it copied (data, of type
\* ty) and the samples it passed to decode() of the bridge (got); an encode
\* worker has the size of the output buffer it allocated (cap).
NoTask == [kind |-> "none", st |-> "none", h |-> NullHandle, mode |-> 0, n |-> 0,
           err |-> FALSE, errCode |-> 0, ret |-> 0, len |-> 0, sent |-> 0,
           cbErr |-> 0, cbRes |-> 0, aw |-> {}, ty |-> "", data |-> <<>>, got |-> <<>>,
           cap |-> 0, lib |-> NoLibCall, wr |-> 0]

NumTasks == Cardinality({t \in TaskIds : tasks[t].kind # "none"})

\* Workers whose Execute() is on a pool thread
Running == {t \in TaskIds : tasks[t].st = "running"}

\* Workers inside decode() or encode() of the bridge
InBoundary == {t \in Running : tasks[t].kind \in {"Decode", "Encode"}}

\* DecodeWorker / EncodeWorker / AudioConvertWorker constructors followed by
\* Queue(): the worker copies the handle and its inputs and is queued.
NewWorker(kind, handle, mode, n) ==
    [NoTask EXCEPT !.kind = kind, !.st = "queued", !.h = handle, !.mode = mode, !.n = n]

\* What the caller's typed array of a type and a length holds when every
\* element is the 16-bit value fill (as a float: fill / 32768)
TypedArray(ty, len, fill) ==
    [i \in 1..len |-> IF ty = "f32" THEN Num(fill * SubSteps) ELSE fill]

\* ConvertToFloatArray / ConvertToIntArray: a vector built from the elements
\* the typed array holds at the time of the call
ConvertToFloatArray(array) == [i \in 1..Len(array) |-> array[i]]
ConvertToIntArray(array) == [i \in 1..Len(array) |-> array[i]]

\* The worker a decode / encode / convert call creates: a decode worker
\* copies the vector made from the typed array in its constructor.
CallWorker(kind, handle, mode, ty, n, fill) ==
    [NewWorker(kind, handle, mode, n) EXCEPT
        !.ty = ty,
        !.data = IF kind # "Decode" THEN <<>>
                 ELSE IF ty = "f32" THEN ConvertToFloatArray(TypedArray(ty, n, fill))
                 ELSE ConvertToIntArray(TypedArray(ty, n, fill))]

\* Workers whose callback has been delivered
Delivered == {t \in TaskIds : tasks[t].st = "done"}

\* A pool thread may take a queued worker.
CanExecute(t) ==
    /\ tasks[t].st = "queued"
    /\ Cardinality(Running) < PoolSize

\* A completion that does not wait for Execute() to return
CanComplete_early(t) ==
    /\ tasks[t].st \in {"running", "executed"}
    /\ host.pc = "idle"

\* The host delivers a worker's completion: OnWorkComplete runs on the
\* host thread, from the event loop, after Execute() has returned.
CanComplete(t) ==
    /\ tasks[t].st = "executed"
    /\ host.pc = "idle"

\* OnWorkComplete: OnOK calls the callback with (null, result), OnError with
\* (error); the worker is destroyed afterwards.
OnWorkComplete(w) ==
    IF w.err
    THEN [NoTask EXCEPT !.kind = w.kind, !.st = "done", !.cbErr = w.cbErr + 1]
    ELSE [NoTask EXCEPT !.kind = w.kind, !.st = "done", !.cbRes = w.cbRes + 1]

\* ------------------------------------------------------------- arguments

ModeArgs == {-1, 0, 2, 5, 8, 9}
EncodeModeArgs == ModeArgs \cup WSJTXMode
FreqArgs == {-1, 0, MaxFrequency, MaxFrequency + 1}
ThreadArgs == {0, 1, MaxThreadCount, MaxThreadCount + 1}
MsgLenArgs == {0, 1, MaxMessageLength, MaxMessageLength + 1}
AudioLenArgs == {0, 1}
AudioTypes == {"f32", "i16", "other"}
TargetArgs == {"float32", "int16", "bad"}

NoCallRec == [op |-> "none", mode |-> 0, ty |-> "", len |-> 0, freq |-> 0, thr |-> 0,
              tgt |-> "", res |-> "", task |-> 0, before |-> 0, fnCalls |-> {}]

\* Nothing handed to the host; nul names the pointer arguments of a bridge
\* call that were null
NoProbe == [op |-> "none", kind |-> "", mode |-> 0, arg |-> 0, exc |-> "", ret |-> 0,
            val |-> 0, flag |-> FALSE, n |-> 0, m |-> 0, res |-> "", cap |-> 0,
            inp |-> <<>>, out |-> <<>>, hdr |-> <<>>, nul |-> {}, alt |-> <<>>]

\* The modes a capability query is called with
QueryModeArgs == WSJTXMode \cup {-1, 9, 10}

\* ------------------------------------------------------------------ state

\* The state after the module was loaded, on one of the builds and with one
\* of the search directories given.
InitWith(platforms, dirs) ==
    /\ sys \in [platform : platforms, dllDir : dirs]
    /\ probe = NoProbe
    /\ obj = NullObj
    /\ gen = 0
    /\ libSt = [h \in HandleIds |-> "none"]
    /\ queue = [h \in HandleIds |-> <<>>]
    /\ nextMsg = 0
    /\ tasks = [t \in TaskIds |-> NoTask]
    /\ host = [pc |-> "idle", acc |-> <<>>, q0 |-> FALSE, buf |-> 0]
    /\ lastCall = NoCallRec
    /\ pullLog = [last |-> <<>>, lastQuiet |-> FALSE, quiet |-> FALSE,
                  ret |-> [m \in MsgIds |-> 0]]
    /\ ghost = [creates |-> 0, destroys |-> [h \in HandleIds |-> 0],
                nullDestroy |-> FALSE, freedAlive |-> FALSE]
    /\ crashed = FALSE

\* A Unix build in a process that set no DLL directory
Init == InitWith({"unix"}, {"default"})

\* Any build, in a process that may have set a DLL directory of its own
FacadeInit == InitWith(Platforms, {"default", "custom"})

\* ------------------------------------------------- construction, teardown

\* new WSJTXLib(): the constructor runs LoadBridge(); when it throws there
\* is no object and no destructor will run for it.
Construct(pathOk, libFound, exported, createOk) ==
    /\ ~crashed
    /\ host.pc = "idle"
    /\ obj.st \in {"Unloaded", "Failed", "Destroyed"}
    /\ gen < MaxInst
    /\ LET r == LoadBridge(NullObj, sys.platform, sys.dllDir,
                            pathOk, libFound, exported, createOk, gen + 1)
           a == ApplyEvents(r.events, libSt, [ghost EXCEPT !.creates = 0])
       IN  /\ obj' = r.obj
           /\ libSt' = a.libSt
           /\ ghost' = a.ghost
           /\ sys' = [sys EXCEPT !.dllDir = r.dllDir]
    /\ gen' = gen + 1
    /\ pullLog' = [pullLog EXCEPT !.quiet = FALSE]
    /\ lastCall' = NoCallRec
    /\ UNCHANGED <<queue, nextMsg, tasks, host, crashed, probe>>

\* ~WSJTXLibWrapper(): runs when the object is finalized; queued and
\* running workers hold copies of the handle and of the function pointers
\* and do not keep the object alive.
Destruct ==
    /\ ~crashed
    /\ host.pc = "idle"
    /\ obj.st = "Ready"
    /\ LET u == UnloadBridge(obj)
           a == ApplyEvents(u.events, libSt, ghost)
       IN  /\ obj' = [u.obj EXCEPT !.st = "Destroyed"]
           /\ libSt' = a.libSt
           /\ ghost' = a.ghost
    /\ pullLog' = [pullLog EXCEPT !.quiet = FALSE]
    /\ lastCall' = NoCallRec
    /\ UNCHANGED <<gen, queue, nextMsg, tasks, host, crashed, sys, probe>>

\* ------------------------------------------------------------- host calls

\* A host call that could start on an object whose constructor threw
CanCall_anyState(cap) ==
    /\ ~crashed
    /\ host.pc = "idle"
    /\ NumTasks < cap

\* A host call starts on a live object from the event loop: the constructor
\* throws when LoadBridge() fails, so only a loaded object has methods to call.
CanCall(cap) ==
    /\ ~crashed
    /\ host.pc = "idle"
    /\ obj.st = "Ready"
    /\ NumTasks < cap

\* The slot the next worker gets
NextTask == NumTasks + 1

\* A call that queues its worker before it looks at the validation result
Schedule_unchecked(call, res, kind, mode, n) ==
    /\ tasks' = [tasks EXCEPT ![NextTask] =
                    [CallWorker(kind, obj.lib, mode, call.ty, n, host.buf)
                        EXCEPT !.aw = Delivered]]
    /\ lastCall' = [call EXCEPT !.res = res,
                                !.task = IF res = "queued" THEN NextTask ELSE 0,
                                !.before = NumTasks,
                                !.fnCalls = {}]
    /\ host' = [host EXCEPT !.pc = "inCall"]
    /\ UNCHANGED <<obj, gen, libSt, queue, nextMsg, pullLog, ghost, crashed, sys, probe>>

\* Common tail of decode / encode / convertAudioFormat: queue the worker
\* when validation passed, and remember what the call did.
Schedule(call, res, kind, mode, n) ==
    /\ tasks' = IF res = "queued"
                THEN [tasks EXCEPT ![NextTask] =
                        [CallWorker(kind, obj.lib, mode, call.ty, n, host.buf)
                            EXCEPT !.aw = Delivered]]
                ELSE tasks
    /\ lastCall' = [call EXCEPT !.res = res,
                                !.task = IF res = "queued" THEN NextTask ELSE 0,
                                !.before = NumTasks,
                                !.fnCalls = {}]
    /\ host' = [host EXCEPT !.pc = "inCall"]
    /\ UNCHANGED <<obj, gen, libSt, queue, nextMsg, pullLog, ghost, crashed, sys, probe>>

\* lib.decode(mode, audioData, frequency, threads)
HostDecode(Ms, Tys, Lens, Fs, Ths, cap) ==
    /\ CanCall(cap)
    /\ \E mode \in Ms, ty \in Tys, len \in Lens, f \in Fs, thr \in Ths :
          Schedule([NoCallRec EXCEPT !.op = "decode", !.mode = mode, !.ty = ty,
                                     !.len = len, !.freq = f, !.thr = thr],
                   TSDecode(mode, ty, len, f, thr), "Decode", mode, len)

\* lib.encode(mode, message, frequency, threads)
HostEncode(Ms, Lens, Fs, Ths, cap) ==
    /\ CanCall(cap)
    /\ \E mode \in Ms, len \in Lens, f \in Fs, thr \in Ths :
          Schedule([NoCallRec EXCEPT !.op = "encode", !.mode = mode, !.ty = "str",
                                     !.len = len, !.freq = f, !.thr = thr],
                   TSEncode(mode, len, f, thr), "Encode", mode, len)

\* native convertAudioFormat(audioData, targetFormat, callback)
HostConvert(Tys, Tgts, cap) ==
    /\ CanCall(cap)
    /\ \E ty \in Tys, tgt \in Tgts :
          Schedule([NoCallRec EXCEPT !.op = "convert", !.ty = ty, !.len = 1, !.tgt = tgt],
                   NativeConvert(ty, tgt), "Convert", 0, 1)

\* The call or the callback returns to the event loop; the promise, the
\* value or the exception is with the caller.
HostReturn ==
    /\ ~crashed
    /\ host.pc \in {"inCall", "inCallback"}
    /\ host' = [host EXCEPT !.pc = "idle"]
    /\ lastCall' = NoCallRec
    /\ probe' = NoProbe
    /\ UNCHANGED <<obj, gen, libSt, queue, nextMsg, tasks, pullLog, ghost, crashed, sys>>

\* lib.isEncodingSupported / isDecodingSupported / getSampleRate /
\* getTransmissionDuration (mode): the typed wrapper passes the call on.
HostQuery ==
    /\ ~crashed
    /\ host.pc = "idle"
    /\ obj.st = "Ready"
    /\ \E mode \in QueryModeArgs :
          \/ probe' = [NoProbe EXCEPT !.op = "isEncodingSupported", !.mode = mode,
                                      !.flag = IsEncodingSupported(mode)]
          \/ probe' = [NoProbe EXCEPT !.op = "isDecodingSupported", !.mode = mode,
                                      !.flag = IsDecodingSupported(mode)]
          \/ probe' = [NoProbe EXCEPT !.op = "getSampleRate", !.mode = mode,
                                      !.val = GetSampleRate(sys.platform, mode)]
          \/ probe' = [NoProbe EXCEPT !.op = "getTransmissionDuration", !.mode = mode,
                                      !.val = GetTransmissionDuration(mode)]
    /\ host' = [host EXCEPT !.pc = "inCall"]
    /\ UNCHANGED <<obj, gen, libSt, queue, nextMsg, tasks, lastCall, pullLog, ghost,
                   crashed, sys>>

\* The IQ buffers decodeWSPR is called with: their type and length
IQTypes == {"f32", "i16"}
IQLens == {0, 1, 2, 4}

\* lib.decodeWSPR(iqData, options) with valid options: exc is the code the
\* promise was rejected with (flag), res what it was resolved with.
HostDecodeWSPR ==
    /\ ~crashed
    /\ host.pc = "idle"
    /\ obj.st = "Ready"
    /\ \E ty \in IQTypes, len \in IQLens :
          LET r == TSDecodeWSPR(sys.platform, ty, len)
          IN  probe' = [NoProbe EXCEPT !.op = "decodeWSPR", !.kind = ty, !.arg = len,
                                      !.flag = (r # "queued"),
                                      !.exc = IF r # "queued" THEN r ELSE "",
                                      !.res = IF r # "queued" THEN "" ELSE "array"]
    /\ host' = [host EXCEPT !.pc = "inCall"]
    /\ UNCHANGED <<obj, gen, libSt, queue, nextMsg, tasks, lastCall, pullLog, ghost,
                   crashed, sys>>

\* ------------------------------------------------------- worker execution

\* The worker's handle was destroyed and its library unloaded.
Dangling(t) ==
    /\ tasks[t].kind \in {"Decode", "Encode"}
    /\ libSt[tasks[t].h] # "alive"

\* The library's decode(): appends the messages it found to the FIFO.
LibDecode(q, first, k) == q \o [i \in 1..k |-> first + i]

\* A SetError whose message does not quote the status
StatusError_noCode(w, result) ==
    [w EXCEPT !.st = "executed", !.ret = result, !.err = TRUE, !.errCode = 0]

\* SetError("... failed with error code: " + std::to_string(result)); return
StatusError(w, result) ==
    [w EXCEPT !.st = "executed", !.ret = result, !.err = TRUE, !.errCode = result]

\* The samples DecodeWorker::Execute passes on: floatData_ as it is,
\* intData_ divided by 32768
DecodeAudioData(ty, data) ==
    IF ty = "f32" THEN data ELSE [i \in 1..Len(data) |-> Int16ToFloat(data[i])]

\* A worker that kept a reference to the caller's typed array and reads it
\* when it executes
DecodeWorkerExecute_byReference(w, outcome) ==
    LET audioData == DecodeAudioData(w.ty, TypedArray(w.ty, w.n, host.buf))
        result == wsjtx_decode(w.h, ValidPtr, Len(audioData), outcome)
        cpp_mode == LibraryMode(w.h, Len(audioData) > 0, w.mode)
    IN  IF result # WSJTX_OK
        THEN [StatusError(w, result) EXCEPT !.got = audioData, !.lib = cpp_mode]
        ELSE [w EXCEPT !.st = "executed", !.ret = result, !.got = audioData,
                       !.lib = cpp_mode]

\* DecodeWorker::Execute once decode_fn_ has returned
DecodeWorkerExecute(w, outcome) ==
    LET audioData == DecodeAudioData(w.ty, w.data)
        result == wsjtx_decode(w.h, ValidPtr, Len(audioData), outcome)
        cpp_mode == LibraryMode(w.h, Len(audioData) > 0, w.mode)
    IN  IF result # WSJTX_OK
        THEN [StatusError(w, result) EXCEPT !.got = audioData, !.lib = cpp_mode]
        ELSE [w EXCEPT !.st = "executed", !.ret = result, !.got = audioData,
                       !.lib = cpp_mode]

\* The length of the waveform the library's encode() returns for a mode: the
\* mode's duration at the bridge's sample rate, or at the sample rate of the
\* capability table.
LibEncodeSizes(mode) ==
    {(get_sample_rate_internal(mode) * MODE_INFO(mode).duration) \div 100,
     (MODE_INFO(mode).sampleRate * MODE_INFO(mode).duration) \div 100}

\* EncodeWorker::Execute once encode_fn_ has returned
EncodeWorkerExecute(w, size, outcome) ==
    LET max_samples == wsjtx_get_max_samples(w.mode)
        r == wsjtx_encode(w.h, ValidPtr, ValidPtr, ValidPtr, max_samples, size, outcome)
        cpp_mode == LibraryMode(w.h, max_samples > 0, w.mode)
    IN  IF r.ret # WSJTX_OK
        THEN [StatusError(w, r.ret) EXCEPT !.cap = max_samples, !.lib = cpp_mode,
                                           !.wr = r.written]
        ELSE [w EXCEPT !.st = "executed", !.ret = r.ret, !.len = r.count, !.sent = w.n,
                       !.cap = max_samples, !.lib = cpp_mode, !.wr = r.written]

\* AudioConvertWorker::Execute
AudioConvertWorkerExecute(w) == [w EXCEPT !.st = "executed"]

\* A pool thread starts Execute(): it makes the worker's private copies and
\* enters the bridge call (an encode worker asks get_max_samples first).
ExecStart(t) ==
    /\ ~crashed
    /\ CanExecute(t)
    /\ tasks' = [tasks EXCEPT ![t] =
                    IF @.kind = "Encode" /\ wsjtx_get_max_samples(@.mode) <= 0
                    THEN [@ EXCEPT !.st = "executed", !.err = TRUE]
                    ELSE [@ EXCEPT !.st = "running"]]
    /\ pullLog' = IF tasks[t].kind = "Decode"
                  THEN [pullLog EXCEPT !.quiet = FALSE]
                  ELSE pullLog
    /\ UNCHANGED <<obj, gen, libSt, queue, nextMsg, host, lastCall, ghost, crashed, sys, probe>>

\* The bridge call returns and Execute() finishes; Outcomes is what the
\* compute library may do inside the call.
ExecEnd(t, Outcomes) ==
    /\ ~crashed
    /\ tasks[t].st = "running"
    /\ \/ /\ tasks[t].kind = "Decode"
          /\ \E outcome \in Outcomes, k \in 0..MsgsPerDecode :
                /\ nextMsg + k <= MaxMsgs
                /\ outcome # "ok" => k = 0
                /\ tasks' = [tasks EXCEPT ![t] = DecodeWorkerExecute(@, outcome)]
                /\ IF Dangling(t)
                   THEN k = 0 /\ UNCHANGED <<queue, nextMsg>>
                   ELSE /\ queue' = [queue EXCEPT ![tasks[t].h] = LibDecode(@, nextMsg, k)]
                        /\ nextMsg' = nextMsg + k
       \/ /\ tasks[t].kind = "Encode"
          /\ \E outcome \in Outcomes, size \in LibEncodeSizes(tasks[t].mode) :
                tasks' = [tasks EXCEPT ![t] = EncodeWorkerExecute(@, size, outcome)]
          /\ UNCHANGED <<queue, nextMsg>>
       \/ /\ tasks[t].kind = "Convert"
          /\ tasks' = [tasks EXCEPT ![t] = AudioConvertWorkerExecute(@)]
          /\ UNCHANGED <<queue, nextMsg>>
    /\ UNCHANGED <<obj, gen, libSt, host, lastCall, pullLog, ghost, crashed, sys, probe>>

\* A call through a destroyed handle into an unloaded library is undefined:
\* besides returning some status, it may fault the process.
Fault(t) ==
    /\ ~crashed
    /\ t \in InBoundary
    /\ Dangling(t)
    /\ crashed' = TRUE
    /\ UNCHANGED <<obj, gen, libSt, queue, nextMsg, tasks, host, lastCall, pullLog, ghost, sys, probe>>

\* An OnOK of the decode worker that hands over a list of messages
Callback_messages(w) ==
    IF w.err
    THEN [NoProbe EXCEPT !.op = "callback", !.kind = w.kind, !.mode = w.mode, !.arg = w.n,
                         !.ret = w.ret, !.flag = TRUE, !.val = w.errCode, !.cap = w.cap]
    ELSE [NoProbe EXCEPT !.op = "callback", !.kind = w.kind, !.mode = w.mode, !.arg = w.n,
                         !.ret = w.ret, !.n = w.len, !.m = w.sent, !.cap = w.cap,
                         !.res = IF w.kind = "Encode" THEN "object" ELSE "array"]

\* What the caller's promise is settled with: OnError calls the callback
\* with the error SetError left, which the typed wrapper rejects with under
\* the same message (flag, val: the status the message quotes); OnOK calls it
\* with the result, which the typed wrapper resolves with (res: the boolean
\* true of a decode, the object {audioData, messageSent} of an encode with
\* n = audioData.length and m = messageSent, the typed array of a conversion).
\* cap is the size of the output buffer the encode worker had allocated.
Callback(w) ==
    IF w.err
    THEN [NoProbe EXCEPT !.op = "callback", !.kind = w.kind, !.mode = w.mode, !.arg = w.n,
                         !.ret = w.ret, !.flag = TRUE, !.val = w.errCode, !.cap = w.cap]
    ELSE [NoProbe EXCEPT !.op = "callback", !.kind = w.kind, !.mode = w.mode, !.arg = w.n,
                         !.ret = w.ret, !.n = w.len, !.m = w.sent, !.cap = w.cap,
                         !.res = CASE w.kind = "Decode" -> "true"
                                   [] w.kind = "Encode" -> "object"
                                   [] OTHER             -> "array"]

\* The event loop delivers the worker's callback on the host thread.
Complete(t) ==
    /\ ~crashed
    /\ CanComplete(t)
    /\ tasks' = [tasks EXCEPT ![t] = OnWorkComplete(@)]
    /\ probe' = Callback(tasks[t])
    /\ host' = [host EXCEPT !.pc = "inCallback"]
    /\ UNCHANGED <<obj, gen, libSt, queue, nextMsg, lastCall, pullLog, ghost, crashed, sys>>

\* ------------------------------------------------------------ pullMessages

\* A loop that puts each new message in front of the earlier ones
PushResult_front(acc, msg) == <<msg>> \o acc

\* results[count++] = CreateWSJTXMessage(env, c_msg)
PushResult(acc, msg) == Append(acc, msg)

\* One turn of the loop of PullMessages: stop on has_message <= 0,
\* otherwise keep the message.
PullMessagesStep(acc, r) ==
    IF r.ret <= 0
    THEN [stop |-> TRUE, acc |-> acc]
    ELSE [stop |-> FALSE, acc |-> PushResult(acc, r.msg)]

\* lib.pullMessages() enters the native loop.
PullBegin ==
    /\ ~crashed
    /\ host.pc = "idle"
    /\ obj.st = "Ready"
    /\ host' = [host EXCEPT !.pc = "pull", !.acc = <<>>, !.q0 = pullLog.quiet]
    /\ UNCHANGED <<obj, gen, libSt, queue, nextMsg, tasks, lastCall, pullLog, ghost, crashed, sys, probe>>

\* One pull_message call of the loop; the call that stops the loop makes
\* PullMessages return the list it has built, whatever status stopped it,
\* and the typed wrapper passes that list on (ret: the status that stopped
\* the loop, n: the length of the list).
PullStep ==
    /\ ~crashed
    /\ host.pc = "pull"
    /\ \E outcome \in LibOutcomes :
          LET r == wsjtx_pull_message(obj.lib, ValidPtr, queue[obj.lib], outcome)
              s == PullMessagesStep(host.acc, r)
          IN  /\ queue' = [queue EXCEPT ![obj.lib] = r.q]
              /\ IF s.stop
                 THEN /\ host' = [host EXCEPT !.pc = "inCall", !.acc = <<>>, !.q0 = FALSE]
                      /\ probe' = [NoProbe EXCEPT !.op = "pullMessages", !.ret = r.ret,
                                                  !.n = Len(s.acc)]
                      /\ pullLog' =
                            [last      |-> s.acc,
                             lastQuiet |-> host.q0 /\ pullLog.quiet,
                             quiet     |-> \A t \in Running : tasks[t].kind # "Decode",
                             ret       |-> [m \in MsgIds |->
                                              pullLog.ret[m]
                                              + Cardinality({i \in 1..Len(s.acc) : s.acc[i] = m})]]
                 ELSE /\ host' = [host EXCEPT !.acc = s.acc]
                      /\ UNCHANGED <<pullLog, probe>>
    /\ UNCHANGED <<obj, gen, libSt, nextMsg, tasks, lastCall, ghost, crashed, sys>>

\* ----------------------------------------------------------- specification

\* What GET_SYMBOL may resolve: every symbol, every symbol but one, none
ExportSets == {FnNames} \cup {FnNames \ {f} : f \in FnNames} \cup {{}}

\* Steps of the loader, the pool threads and the event loop
Lifecycle ==
    \/ \E pathOk \in BOOLEAN, libFound \in BOOLEAN, exported \in ExportSets,
          createOk \in BOOLEAN : Construct(pathOk, libFound, exported, createOk)
    \/ Destruct

Background(Outcomes) ==
    \/ HostReturn
    \/ \E t \in TaskIds : ExecStart(t)
    \/ \E t \in TaskIds : ExecEnd(t, Outcomes)
    \/ \E t \in TaskIds : Fault(t)
    \/ \E t \in TaskIds : Complete(t)
    \/ PullBegin
    \/ PullStep

\* The compute library returns, or throws a std::exception
SomeOutcomes == {"ok", "exception"}

\* The program under a caller that mostly passes valid arguments
Next ==
    \/ Lifecycle
    \/ HostDecode({0}, {"i16"}, {0, 1}, {1000}, {1}, MaxTasks)
    \/ HostEncode({0, 2}, {1}, {1000}, {1}, MaxTasks)
    \/ HostConvert({"f32"}, {"int16"}, MaxTasks)
    \/ Background(SomeOutcomes)

Spec == Init /\ [][Next]_vars

\* The pool threads keep running queued workers, bridge calls return, the
\* host returns to its event loop and the event loop delivers completions.
\* A worker is not passed over for ever by a pool that frees up again and
\* again, nor a completion by a host that returns to its loop again and again.
Fairness ==
    /\ \A t \in TaskIds : SF_vars(ExecStart(t))
    /\ \A t \in TaskIds : WF_vars(ExecEnd(t, SomeOutcomes))
    /\ \A t \in TaskIds : SF_vars(Complete(t))
    /\ WF_vars(HostReturn)
    /\ WF_vars(PullStep)

FairSpec == Spec /\ Fairness

\* The program under a caller that passes every kind of argument, one
\* worker at a time
ApiTasks == 1

ApiNext ==
    \/ Lifecycle
    \/ HostDecode(ModeArgs, AudioTypes, AudioLenArgs, FreqArgs, ThreadArgs, ApiTasks)
    \/ HostEncode(EncodeModeArgs, MsgLenArgs, FreqArgs, ThreadArgs, ApiTasks)
    \/ HostConvert(AudioTypes, TargetArgs, ApiTasks)
    \/ Background(LibOutcomes)

ApiSpec == Init /\ [][ApiNext]_vars

\* The loader and the capability queries on every build
FacadeNext ==
    \/ Lifecycle
    \/ HostQuery
    \/ HostDecodeWSPR
    \/ HostReturn

FacadeSpec == FacadeInit /\ [][FacadeNext]_vars

\* ------------------------------------------------- the bridge's C interface

\* A caller of the exported functions holds what the call left behind:
\* the status (ret), for encode the samples written (n) and the sample count
\* (m) next to the capacity it passed (arg), for pull_message the message
\* (val) and the length of the queue afterwards (n), for create the handle (val).
BridgeCall(p) ==
    /\ ~crashed
    /\ host.pc = "idle"
    /\ probe' = p
    /\ host' = [host EXCEPT !.pc = "inCall"]
    /\ UNCHANGED <<obj, gen, libSt, queue, nextMsg, tasks, lastCall, pullLog, ghost,
                   crashed, sys>>

\* The handles, bridge modes, sample counts and queues the exported
\* functions are called with
BridgeHandles == {NullHandle, 1}
Pointers == {NullPtr, ValidPtr}

\* The names of the pointer arguments that are null
NullArgs(names, ptrs) == {names[i] : i \in {j \in 1..Len(names) : ptrs[j] = NullPtr}}

BridgeModes == {0, 1}
BridgeSampleCounts == {-1, 0, 1}
BridgeQueues == {[i \in 1..k |-> i] : k \in 0..MaxMsgs}

\* The texts of the library's messages (characters as their codes, none of
\* them NUL) and the bytes an uninitialised wsjtx_message_t may hold
TextLens == {0, 1, MessageSize - 2, MessageSize - 1, MessageSize, MessageSize + 1,
             MessageSize + Overrun}
MsgTexts == {[i \in 1..k |-> 65 + (i % 26)] : k \in TextLens}
GarbageBytes == {0, 204}

CallCreate ==
    /\ host.pc = "idle"
    /\ \E outcome \in LibOutcomes :
        BridgeCall([NoProbe EXCEPT !.op = "wsjtx_create", !.exc = outcome,
                                   !.val = wsjtx_create(outcome = "ok", 1)])

CallDecode ==
    /\ host.pc = "idle"
    /\ \E handle \in BridgeHandles, audio_samples \in Pointers,
          sample_count \in BridgeSampleCounts, outcome \in LibOutcomes :
        BridgeCall([NoProbe EXCEPT !.op = "wsjtx_decode", !.exc = outcome,
                                   !.arg = sample_count, !.flag = (handle # NullHandle),
                                   !.nul = NullArgs(<<"audio_samples">>, <<audio_samples>>),
                                   !.ret = wsjtx_decode(handle, audio_samples, sample_count,
                                                        outcome)])

CallEncode ==
    /\ host.pc = "idle"
    /\ \E handle \in BridgeHandles, mode \in BridgeModes, outcome \in LibOutcomes :
        \E capacity \in {0, wsjtx_get_max_samples(mode)}, size \in LibEncodeSizes(mode),
           message \in Pointers, output_samples \in Pointers, output_sample_count \in Pointers :
            LET r == wsjtx_encode(handle, message, output_samples, output_sample_count,
                                  capacity, size, outcome)
            IN  BridgeCall([NoProbe EXCEPT !.op = "wsjtx_encode", !.exc = outcome,
                                           !.mode = mode, !.arg = capacity,
                                           !.flag = (handle # NullHandle),
                                           !.nul = NullArgs(<<"message", "output_samples",
                                                              "output_sample_count">>,
                                                            <<message, output_samples,
                                                              output_sample_count>>),
                                           !.ret = r.ret, !.n = r.written, !.m = r.count])

\* text is the text of the message at the head of the queue, g the byte the
\* caller's struct and the memory behind it are filled with before the call;
\* out is that memory after the call.
CallPullMessage ==
    /\ host.pc = "idle"
    /\ \E handle \in BridgeHandles, message \in Pointers, q \in BridgeQueues,
          outcome \in LibOutcomes, text \in MsgTexts, g \in GarbageBytes :
        LET r == wsjtx_pull_message(handle, message, q, outcome)
            mem == [hdr |-> [i \in 1..7 |-> g],
                    text |-> [i \in 1..(MessageSize + Overrun) |-> g]]
            after == FillMessage(mem, r, text)
        IN  BridgeCall([NoProbe EXCEPT !.op = "wsjtx_pull_message", !.exc = outcome,
                                       !.arg = Len(q), !.flag = (handle # NullHandle),
                                       !.nul = NullArgs(<<"message">>, <<message>>),
                                       !.ret = r.ret, !.val = r.msg, !.n = Len(r.q),
                                       !.inp = IF r.ret = 1 THEN text ELSE <<>>,
                                       !.m = g, !.out = after.text, !.hdr = after.hdr])

BridgeNext ==
    \/ CallCreate
    \/ CallDecode
    \/ CallEncode
    \/ CallPullMessage
    \/ HostReturn

BridgeSpec == Init /\ [][BridgeNext]_vars

\* ------------------------------------------- a caller that reuses its buffer

\* The 16-bit values the caller fills its typed array with
BufFills == {0, Int16Scale \div 2}

\* The caller overwrites its typed array between two steps of the program.
MutateBuffer ==
    /\ ~crashed
    /\ \E fill \in BufFills \ {host.buf} : host' = [host EXCEPT !.buf = fill]
    /\ UNCHANGED <<obj, gen, libSt, queue, nextMsg, tasks, lastCall, pullLog, ghost,
                   crashed, sys, probe>>

\* One instance that is not torn down, its decode workers, and the caller
\* writing into its array at any time
CopyNext ==
    \/ \E pathOk \in BOOLEAN, libFound \in BOOLEAN, exported \in ExportSets,
          createOk \in BOOLEAN : Construct(pathOk, libFound, exported, createOk)
    \/ HostDecode({0}, {"f32", "i16"}, {1, 2}, {1000}, {1}, ApiTasks)
    \/ MutateBuffer
    \/ HostReturn
    \/ \E t \in TaskIds : ExecStart(t)
    \/ \E t \in TaskIds : ExecEnd(t, SomeOutcomes)
    \/ \E t \in TaskIds : Complete(t)

CopySpec == Init /\ [][CopyNext]_vars

\* ------------------------------------------------------ the two converters

MaxBuf == 2         \* samples in a buffer handed to a conversion

\* Float samples inside [-1, 1], at its ends and around the 16-bit steps
InRangeSamples ==
    {Num(k) : k \in {-One, 1 - One, 2 - One, -(One \div 2), -(SubSteps + 2), -2, -1, 0,
                     1, 2, SubSteps + 2, One \div 2, One - SubSteps - 2, One - SubSteps,
                     One - 2, One - 1, One}}

\* Float samples of every kind
FloatSamples ==
    InRangeSamples \cup {Num(-3 * One), Num(-One - 1), Num(One + 1), Num(3 * One),
                         NaN, PosInf, NegInf}

Int16Samples == {Int16Min, -(Int16Scale \div 2), -1, 0, 1, Int16Scale \div 2, Int16Max}

\* The buffers of at most MaxBuf samples over a set of samples
Buffers(S) == UNION {[1..n -> S] : n \in 0..MaxBuf}

\* The worker of the native convertAudioFormat runs on a buffer; the host
\* holds the input (inp) and the typed array its callback got (out).
CallConvertWorker ==
    /\ host.pc = "idle"
    /\ \E fromFloat \in BOOLEAN, target \in {"float32", "int16"} :
        \E input \in Buffers(IF fromFloat THEN FloatSamples ELSE Int16Samples) :
            \E output \in ConvertSamples(fromFloat, target, input) :
                BridgeCall([NoProbe EXCEPT !.op = "AudioConvertWorker", !.flag = fromFloat,
                                           !.res = target, !.inp = input, !.out = output])

\* WSJTXLib.convertAudioFormat(audioData, targetFormat)
CallConvertStatic ==
    /\ host.pc = "idle"
    /\ \E isFloat \in BOOLEAN, targetFormat \in {"float32", "int16"} :
        \E audioData \in Buffers(IF isFloat THEN FloatSamples ELSE Int16Samples) :
            \E output \in convertAudioFormat(isFloat, targetFormat, audioData) :
                BridgeCall([NoProbe EXCEPT !.op = "convertAudioFormat", !.flag = isFloat,
                                           !.res = targetFormat, !.inp = audioData,
                                           !.out = output])

\* A buffer of samples in [-1, 1] converted to int16 and back to float, by
\* the native worker (kind "native") or by the typed wrapper (kind "ts")
CallRoundTrip ==
    /\ host.pc = "idle"
    /\ \E input \in Buffers(InRangeSamples) :
        \/ \E mid \in ConvertSamples(TRUE, "int16", input) :
              \E output \in ConvertSamples(FALSE, "float32", mid) :
                 BridgeCall([NoProbe EXCEPT !.op = "roundTrip", !.kind = "native",
                                            !.inp = input, !.out = output])
        \/ \E mid \in convertAudioFormat(TRUE, "int16", input) :
              \E output \in convertAudioFormat(FALSE, "float32", mid) :
                 BridgeCall([NoProbe EXCEPT !.op = "roundTrip", !.kind = "ts",
                                            !.inp = input, !.out = output])

\* One buffer given to the native worker (its result: out) and to the typed
\* wrapper's convertAudioFormat (its result: alt)
CallConvertBoth ==
    /\ host.pc = "idle"
    /\ \E isFloat \in BOOLEAN, target \in {"float32", "int16"} :
        \E input \in Buffers(IF isFloat THEN FloatSamples ELSE Int16Samples) :
            \E output \in ConvertSamples(isFloat, target, input),
               other \in convertAudioFormat(isFloat, target, input) :
                BridgeCall([NoProbe EXCEPT !.op = "convertBoth", !.flag = isFloat,
                                           !.res = target, !.inp = input, !.out = output,
                                           !.alt = other])

\* One int16 sample, any of the 65536, converted to float and back to
\* int16, by the native worker (kind "native") or by the typed wrapper
\* (kind "ts")
CallRoundTripInt16 ==
    /\ host.pc = "idle"
    /\ \E i \in Int16Min..Int16Max :
        \/ \E mid \in ConvertSamples(FALSE, "float32", <<i>>) :
              \E output \in ConvertSamples(TRUE, "int16", mid) :
                 BridgeCall([NoProbe EXCEPT !.op = "roundTripInt16", !.kind = "native",
                                            !.inp = <<i>>, !.out = output])
        \/ \E mid \in convertAudioFormat(FALSE, "float32", <<i>>) :
              \E output \in convertAudioFormat(TRUE, "int16", mid) :
                 BridgeCall([NoProbe EXCEPT !.op = "roundTripInt16", !.kind = "ts",
                                            !.inp = <<i>>, !.out = output])

ConvertNext ==
    \/ CallConvertWorker
    \/ CallConvertStatic
    \/ CallRoundTrip
    \/ CallConvertBoth
    \/ CallRoundTripInt16
    \/ HostReturn

ConvertSpec == Init /\ [][ConvertNext]_vars

TypeOK ==
    /\ obj.st \in {"Unloaded", "Ready", "Failed", "Destroyed"}
    /\ gen \in 0..MaxInst
    /\ nextMsg \in 0..MaxMsgs
    /\ crashed \in BOOLEAN
    /\ host.pc \in {"idle", "inCall", "inCallback", "pull"}

\* ------------------------------------------------------------------ claims

\* C1: at most one call through the function table (decode, encode or
\* pull_message) is executing against an instance's handle at any moment.
C1_OneCallPerHandle ==
    \A h \in HandleIds :
        Cardinality({t \in InBoundary : tasks[t].h = h})
        + (IF host.pc = "pull" /\ obj.lib = h THEN 1 ELSE 0) <= 1

\* C2: no worker enters decode() or encode() with a handle after that
\* handle was destroyed and its library unloaded.
C2_NoCallAfterDestroy ==
    [][\A t \in TaskIds :
          (/\ tasks[t].st = "queued"
           /\ tasks'[t].st = "running"
           /\ tasks[t].kind \in {"Decode", "Encode"})
          => libSt[tasks[t].h] = "alive"]_vars

\* The arguments C3 calls out of range
OutOfRange(c) ==
    \/ c.mode \notin WSJTXMode
    \/ c.freq < 0 \/ c.freq > 30000000
    \/ c.thr < 1 \/ c.thr > 16
    \/ c.op = "encode" /\ (c.len < 1 \/ c.len > 22)

\* The call left no worker behind and called nothing of the function table
NothingScheduled(c) ==
    /\ c.res # "queued"
    /\ c.task = 0
    /\ NumTasks = c.before
    /\ c.fnCalls = {}

\* C3: a decode or encode call with a mode outside the enum, a frequency
\* outside [0, 30000000], a thread count outside [1, 16] or (encode) a message
\* length outside [1, 22] is rejected before it returns, queues no worker and
\* calls no function-table entry; the values 0, 30000000, 1, 16, 1 and 22 are
\* accepted.
C3_OutOfRangeRejected ==
    lastCall.op \in {"decode", "encode"} =>
        /\ OutOfRange(lastCall) => NothingScheduled(lastCall)
        /\ (/\ lastCall.mode = FT8
            /\ lastCall.freq \in {0, 30000000}
            /\ lastCall.thr \in {1, 16}
            /\ lastCall.op = "encode" => lastCall.len \in {1, 22}
            /\ lastCall.op = "decode" => lastCall.ty \in {"f32", "i16"} /\ lastCall.len > 0)
           => (lastCall.res = "queued" /\ tasks[lastCall.task].st # "none")

C3_Witness ==
    /\ lastCall.op = "encode"
    /\ lastCall.mode = FT8
    /\ lastCall.freq = 30000000
    /\ lastCall.thr = 16
    /\ lastCall.len = 23
    /\ lastCall.res = "INVALID_MESSAGE"

\* C4: decode with an empty Float32 or Int16 buffer is rejected before it
\* returns and queues no worker, so that decode() of the bridge is never
\* called for it; when mode, frequency and thread count are valid (they are
\* checked first) the error is INVALID_AUDIO_DATA.
C4_EmptyAudioRejected ==
    (lastCall.op = "decode" /\ lastCall.len = 0 /\ lastCall.ty \in {"f32", "i16"}) =>
        /\ NothingScheduled(lastCall)
        /\ ~OutOfRange(lastCall) => lastCall.res = "INVALID_AUDIO_DATA"

C4_Witness ==
    /\ lastCall.op = "decode"
    /\ lastCall.len = 0
    /\ lastCall.ty = "i16"
    /\ lastCall.mode = FT8
    /\ lastCall.res = "INVALID_AUDIO_DATA"

\* C5: every queued worker eventually completes and its callback is called
\* exactly once, with an error or with a result.
C5_EveryTaskCompletesOnce ==
    \A t \in TaskIds :
        (tasks[t].st = "queued")
        ~> (tasks[t].st = "done" /\ tasks[t].cbErr + tasks[t].cbRes = 1)

C7_DrainedStaysDrained ==
    pullLog.lastQuiet => pullLog.last = <<>>

\* Messages are numbered in the order the library produced them.
InProductionOrder(list) ==
    \A i, j \in 1..Len(list) : i < j => list[i] < list[j]

\* The messages of a list
Elems(list) == {list[i] : i \in 1..Len(list)}

\* C8: every message is returned by at most one pullMessages() call, in
\* each returned list the messages are in production order, and a message
\* that was handed out is no longer in the queue.
C8_DrainOnceInOrder ==
    /\ \A m \in MsgIds : pullLog.ret[m] <= 1
    /\ InProductionOrder(pullLog.last)
    /\ InProductionOrder(host.acc)
    /\ \A h \in HandleIds : \A m \in Elems(queue[h]) :
          pullLog.ret[m] = 0 /\ m \notin Elems(host.acc)
    /\ \A m \in Elems(host.acc) : pullLog.ret[m] = 0

C8_Witness ==
    /\ Len(pullLog.last) >= 2
    /\ \E h \in HandleIds : queue[h] # <<>>

\* C9: the function table is all-or-nothing: a constructed instance has all
\* seven entry points, and otherwise (load failed, torn down, not yet
\* constructed) all seven are null and the library is released.
C9_TableAllOrNothing ==
    \/ /\ obj.st = "Ready"
       /\ obj.fns = FnNames
       /\ obj.dll
       /\ obj.lib # NullHandle
    \/ /\ obj.st \in {"Unloaded", "Failed", "Destroyed"}
       /\ obj.fns = {}
       /\ ~obj.dll
       /\ obj.lib = NullHandle

C9_Witness ==
    /\ obj.st = "Failed"
    /\ obj.err = "symbol"

\* C10: a construction calls create() at most once and exactly once when it
\* succeeds; destroy() is never called on a null handle nor twice on one
\* handle; once the instance is gone every handle create() returned has been
\* destroyed exactly once; the library is never freed under a live handle.
C10_HandleOwnedOnce ==
    /\ ghost.creates <= 1
    /\ obj.st = "Ready" =>
          /\ ghost.creates = 1
          /\ libSt[obj.lib] = "alive"
          /\ \A h \in HandleIds : libSt[h] = "alive" => h = obj.lib
    /\ obj.st # "Ready" => \A h \in HandleIds : libSt[h] # "alive"
    /\ \A h \in HandleIds :
          /\ ghost.destroys[h] <= 1
          /\ libSt[h] = "destroyed" <=> ghost.destroys[h] = 1
    /\ ~ghost.nullDestroy
    /\ ~ghost.freedAlive

C10_Witness ==
    /\ obj.st = "Destroyed"
    /\ gen = 2
    /\ ghost.destroys[1] = 1

\* C11: when create() returns a null handle during the load, the load fails
\* with the bridge library released and every function pointer cleared, and
\* destroy() is not called, neither on the null handle nor on any other.
C11_NullHandleFailsLoad ==
    (obj.st = "Failed" /\ obj.err = "create") =>
        /\ ~obj.dll
        /\ obj.fns = {}
        /\ obj.lib = NullHandle
        /\ ghost.creates = 1
        /\ ~ghost.nullDestroy
        /\ ghost.destroys[gen] = 0
        /\ libSt[gen] = "none"

C11_Witness ==
    /\ obj.st = "Failed"
    /\ obj.err = "create"
    /\ ghost.creates = 1
    /\ sys.platform = "win32"

\* C12: on every exit path of the load the process-wide DLL search directory
\* is after the load what it was immediately before it.
C12_SearchPathRestored ==
    [][gen' # gen => sys'.dllDir = sys.dllDir]_vars

\* C13: when loading the bridge library fails, the error raised at
\* construction carries the attempted path and the loader's error.
C13_LoadErrorCarriesPath ==
    (obj.st = "Failed" /\ obj.err = "load") => {"path", "loaderError"} \subseteq obj.msg

\* C14: an instance goes from not loaded to Ready or to Failed in its
\* constructor and a Failed instance never changes again; decode and encode
\* queue a worker, and pullMessages calls pull_message, only on an instance
\* that is Ready, with a non-null handle and all seven entry points.
C14_ReadyBeforeDispatch ==
    [][/\ gen' # gen =>
             /\ gen' = gen + 1
             /\ obj.st \in {"Unloaded", "Failed", "Destroyed"}
             /\ obj'.st \in {"Ready", "Failed"}
       /\ (gen' = gen /\ obj'.st # obj.st) => (obj.st = "Ready" /\ obj'.st = "Destroyed")
       /\ (gen' = gen /\ obj.st = "Failed") => obj' = obj
       /\ (\/ \E t \in TaskIds : tasks[t].kind = "none" /\ tasks'[t].kind \in {"Decode", "Encode"}
           \/ host.pc = "pull"
           \/ host'.pc = "pull")
          => (obj.st = "Ready" /\ obj.lib # NullHandle /\ obj.fns = FnNames)]_vars

C14_Witness ==
    /\ gen = 2
    /\ obj.st = "Ready"
    /\ \E t \in TaskIds : tasks[t].kind = "Decode" /\ tasks[t].st = "queued" /\ tasks[t].h = 2
    /\ pullLog.ret[1] = 1

\* C15: for every mode the capability table has a row for, getSampleRate and
\* getTransmissionDuration return that row's constants on every build,
\* whatever get_sample_rate of the bridge reports.
C15_TableIsAuthoritative ==
    probe.mode \in ModeInfoKeys =>
        /\ probe.op = "getSampleRate" => probe.val = MODE_INFO(probe.mode).sampleRate
        /\ probe.op = "getTransmissionDuration" => probe.val = MODE_INFO(probe.mode).duration

\* C16: for each of the nine members of the typed wrapper's enum,
\* isDecodingSupported is true, isEncodingSupported is true exactly for FT8
\* and FT4, and getSampleRate / getTransmissionDuration return the mode's
\* row of the documented table.
C16_DocumentedModeTable ==
    probe.mode \in WSJTXMode =>
        /\ probe.op = "isDecodingSupported" => probe.flag = SupportedModes(probe.mode).decoding
        /\ probe.op = "isEncodingSupported" => probe.flag = SupportedModes(probe.mode).encoding
        /\ probe.op = "getSampleRate" => probe.val = SupportedModes(probe.mode).sampleRate
        /\ probe.op = "getTransmissionDuration" =>
              probe.val \div 10 = SupportedModes(probe.mode).duration

\* The statuses the bridge returns when the library's encode() threw
ThrownStatuses ==
    {WSJTX_ERR_INVALID_PARAM, WSJTX_ERR_OUT_OF_MEMORY, WSJTX_ERR_ENCODE_FAILED,
     WSJTX_ERR_INTERNAL}

\* C17: an encode call that passed validation (message of 1 to 22
\* characters on an encode-supported mode, frequency and threads in range)
\* completes with success unless the library threw: the callback gets no
\* error, audioData of length > 0 and messageSent equal to the message.
C17_ValidEncodeSucceeds ==
    (probe.op = "callback" /\ probe.kind = "Encode" /\ probe.ret \notin ThrownStatuses) =>
        /\ ~probe.flag
        /\ probe.n > 0
        /\ probe.m = probe.arg

\* C18: whenever wsjtx_encode returns BUFFER_TOO_SMALL or any other
\* non-OK status it has written nothing to output_samples and has left
\* *output_sample_count as the caller set it.
C18_NoPartialWrite ==
    (probe.op = "wsjtx_encode" /\ probe.ret # WSJTX_OK) =>
        /\ probe.n = 0
        /\ probe.m = probe.arg

C18_Witness ==
    /\ probe.op = "wsjtx_encode"
    /\ probe.ret = WSJTX_ERR_BUFFER_TOO_SMALL
    /\ probe.arg = 180000
    /\ probe.m = 180000

\* C19: whatever the compute library throws inside an exported function,
\* the function returns a status (create: a null handle): invalid_argument
\* gives INVALID_PARAM, bad_alloc gives OUT_OF_MEMORY, any other
\* std::exception gives DECODE_FAILED in decode and ENCODE_FAILED in encode,
\* and anything else gives INTERNAL.
C19_ExceptionsMapped ==
    /\ (probe.op = "wsjtx_create" /\ probe.exc # "ok") => probe.val = NullHandle
    /\ (/\ probe.op \in {"wsjtx_decode", "wsjtx_encode", "wsjtx_pull_message"}
        /\ probe.flag
        /\ probe.op # "wsjtx_pull_message" => probe.arg > 0) =>
           /\ probe.exc = "invalid_argument" => probe.ret = WSJTX_ERR_INVALID_PARAM
           /\ probe.exc = "bad_alloc" => probe.ret = WSJTX_ERR_OUT_OF_MEMORY
           /\ (probe.exc = "exception" /\ probe.op = "wsjtx_decode")
                 => probe.ret = WSJTX_ERR_DECODE_FAILED
           /\ (probe.exc = "exception" /\ probe.op = "wsjtx_encode")
                 => probe.ret = WSJTX_ERR_ENCODE_FAILED
           /\ probe.exc = "unknown" => probe.ret = WSJTX_ERR_INTERNAL

\* C20: whenever decode() or encode() of the bridge returned a non-zero
\* status, the worker's callback gets an error and no result, and the error's
\* message quotes that status, so that different statuses give different errors.
C20_StatusBecomesError ==
    (probe.op = "callback" /\ probe.kind \in {"Decode", "Encode"} /\ probe.ret # WSJTX_OK) =>
        /\ probe.flag
        /\ probe.val = probe.ret
        /\ probe.n = 0
        /\ probe.m = 0
        /\ \A t \in TaskIds : tasks[t].st = "done" => tasks[t].cbErr + tasks[t].cbRes = 1

C20_Witness ==
    /\ probe.op = "callback"
    /\ probe.kind = "Decode"
    /\ probe.ret = WSJTX_ERR_OUT_OF_MEMORY
    /\ probe.flag
    /\ probe.val = WSJTX_ERR_OUT_OF_MEMORY

\* C21: a pullMessages() whose pull_message call returned a negative status
\* does not return a list of messages: no returned list, empty or not, was
\* ended by a negative status.
C21_PullErrorSurfaced ==
    probe.op = "pullMessages" => probe.ret >= 0

\* q is the beginning of r
IsPrefix(q, r) == Len(q) <= Len(r) /\ SubSeq(r, 1, Len(q)) = q

Min(a, b) == IF a < b THEN a ELSE b

\* C23: for a message text of any length, 79, 80 and more included,
\* pull_message leaves in the 80-byte buffer the first min(length, 79)
\* characters of the text followed by a NUL, and writes no byte behind the
\* buffer.
C23_TextTruncatedInBuffer ==
    (probe.op = "wsjtx_pull_message" /\ probe.ret = 1) =>
        LET k == Min(Len(probe.inp), MessageSize - 1)
        IN  /\ \A i \in 1..k : probe.out[i] = probe.inp[i]
            /\ probe.out[k + 1] = 0
            /\ \A i \in (MessageSize + 1)..Len(probe.out) : probe.out[i] = probe.m

C23_Witness ==
    /\ probe.op = "wsjtx_pull_message"
    /\ probe.ret = 1
    /\ Len(probe.inp) = MessageSize + 1
    /\ probe.out[MessageSize - 1] = probe.inp[MessageSize - 1]
    /\ probe.out[MessageSize] = 0
    /\ probe.m = 204

\* The sample is above 1, below -1
Above1(v) == (v.c = "num" /\ v.k > One) \/ v = PosInf
BelowMinus1(v) == (v.c = "num" /\ v.k < -One) \/ v = NegInf

\* C24: converting float to int16 gives, for every input, as many samples as
\* it got, each in [-32768, 32767], 32767 for an input above 1 and -32768
\* for an input below -1; converting a buffer to the representation it
\* already has gives a buffer equal to it, element for element.
C24_ClampAndNoOp ==
    probe.op \in {"AudioConvertWorker", "convertAudioFormat"} =>
        /\ Len(probe.out) = Len(probe.inp)
        /\ (probe.flag /\ probe.res = "int16") =>
              \A i \in 1..Len(probe.inp) :
                 /\ probe.out[i] \in Int16Min..Int16Max
                 /\ Above1(probe.inp[i]) => probe.out[i] = Int16Max
                 /\ BelowMinus1(probe.inp[i]) => probe.out[i] = Int16Min
        /\ (probe.flag <=> probe.res = "float32") => probe.out = probe.inp

C24_Witness ==
    /\ probe.op = "AudioConvertWorker"
    /\ probe.flag
    /\ probe.res = "int16"
    /\ probe.inp = <<Num(3 * One), NaN>>
    /\ probe.out = <<Int16Max, 0>>

\* The distance of two float samples, in units of 1 / (SubSteps * 32768)
Dist(v, w) == IF v.k >= w.k THEN v.k - w.k ELSE w.k - v.k

\* C25 as stated: every float sample in [-1, 1], 1 and -1 included, comes
\* back from int16 less than 2^-15 away from where it was.
C25_RoundTripBelowStep ==
    probe.op = "roundTrip" =>
        \A i \in 1..Len(probe.inp) : Dist(probe.inp[i], probe.out[i]) < SubSteps

\* C25: every float sample in [-1, 1] comes back from int16 at most 2^-15
\* away from where it was, and less than 2^-15 away unless the sample is 1
\* (which becomes 32767 and comes back as 32767/32768).
C25_RoundTripWithinStep ==
    probe.op = "roundTrip" =>
        /\ Len(probe.out) = Len(probe.inp)
        /\ \A i \in 1..Len(probe.inp) :
              /\ Dist(probe.inp[i], probe.out[i]) <= SubSteps
              /\ probe.inp[i] # Num(One) => Dist(probe.inp[i], probe.out[i]) < SubSteps

C25_Witness ==
    /\ probe.op = "roundTrip"
    /\ probe.kind = "native"
    /\ probe.inp = <<Num(One), Num(-One)>>
    /\ probe.out = <<Num(One - SubSteps), Num(-One)>>

\* C26: a worker that was submitted after the callback of another worker
\* had been delivered starts its bridge call after the other's bridge call
\* has returned: a callback is delivered only once Execute() has returned,
\* and when the later worker starts, the earlier one is finished for good.
C26_AwaitedRunsFirst ==
    [][\A b \in TaskIds :
          /\ (tasks[b].st # "done" /\ tasks'[b].st = "done") => tasks[b].st = "executed"
          /\ (tasks[b].st = "queued" /\ tasks'[b].st # "queued") =>
                \A a \in tasks[b].aw : tasks[a].st = "done" /\ tasks'[a].st = "done"]_vars

C26_Witness ==
    /\ tasks[1].st = "done"
    /\ tasks[1].kind = "Decode"
    /\ tasks[2].aw = {1}
    /\ tasks[2].kind = "Encode"
    /\ tasks[2].st = "running"

\* Workers submitted without waiting: the second has finished while the
\* first has not started.
C26_EitherOrder ==
    /\ tasks[1].st = "queued"
    /\ tasks[2].aw = {}
    /\ tasks[2].st = "done"

\* C27: a decode or encode call that validation rejects changes nothing of
\* the instance (handle, function table, queues, workers, bookkeeping of the
\* bridge); when it has returned, the host is back in its event loop holding
\* nothing of the call, which is the state the call was made in, so that
\* whatever is called next starts from the state it would have started from
\* without the rejected call.
C27_RejectedCallLeavesNoTrace ==
    [][/\ (lastCall.op = "none" /\ lastCall'.op \in {"decode", "encode"}
           /\ lastCall'.res # "queued") =>
             /\ host.pc = "idle"
             /\ probe = NoProbe
             /\ host' = [host EXCEPT !.pc = "inCall"]
             /\ UNCHANGED <<obj, gen, libSt, queue, nextMsg, tasks, pullLog, ghost,
                            crashed, sys, probe>>
       /\ (lastCall.op \in {"decode", "encode"} /\ lastCall.res # "queued"
           /\ host.pc = "inCall" /\ host'.pc # "inCall") =>
             /\ host' = [host EXCEPT !.pc = "idle"]
             /\ lastCall' = NoCallRec
             /\ UNCHANGED <<obj, gen, libSt, queue, nextMsg, tasks, pullLog, ghost,
                            crashed, sys, probe>>]_vars

C27_Witness ==
    /\ lastCall.op = "decode"
    /\ lastCall.res = "INVALID_AUDIO_DATA"
    /\ obj.st = "Ready"
    /\ queue[obj.lib] # <<>>
    /\ tasks[1].st = "done"
    /\ tasks[2].st = "none"

\* C28: the samples a decode worker passes to decode() of the bridge are the
\* contents the caller's typed array had when decode() was called (an Int16
\* array's divided by 32768), whatever the caller writes into the array
\* after the call has returned, before or while the worker executes.
C28_SamplesCopiedAtCall ==
    [][\A t \in TaskIds :
          /\ (tasks[t].kind = "none" /\ tasks'[t].kind = "Decode") =>
                tasks'[t].data = TypedArray(lastCall'.ty, lastCall'.len, host.buf)
          /\ (tasks[t].kind = "Decode" /\ tasks[t].st \in {"queued", "running"}) =>
                /\ tasks'[t].st \in {"queued", "running"} =>
                      (tasks'[t].data = tasks[t].data /\ tasks'[t].ty = tasks[t].ty)
                /\ tasks'[t].st = "executed" =>
                      tasks'[t].got = DecodeAudioData(tasks[t].ty, tasks[t].data)]_vars

C28_Witness ==
    /\ tasks[1].kind = "Decode"
    /\ tasks[1].st = "executed"
    /\ tasks[1].ty = "i16"
    /\ tasks[1].data = <<0, 0>>
    /\ tasks[1].got = <<Num(0), Num(0)>>
    /\ host.buf = Int16Scale \div 2

\* C29: decodeWSPR with a non-empty Float32 IQ buffer of even length and
\* valid options does not fail: its promise is resolved with an array of
\* results.
C29_WSPRDecodeSucceeds ==
    (probe.op = "decodeWSPR" /\ probe.kind = "f32" /\ probe.arg > 0 /\ probe.arg % 2 = 0) =>
        (~probe.flag /\ probe.res = "array")

\* The samples of a full transmission at the sample rate and the duration
\* the capability table declares for a mode
FullTransmission(mode) == (MODE_INFO(mode).sampleRate * MODE_INFO(mode).duration) \div 100

\* C30: for each encode-supported mode (FT8, FT4) the output buffer an encode
\* worker allocates, get_max_samples(mode) samples, holds a full transmission
\* at the declared sample rate and duration (FT8: 48000 x 12.64, FT4:
\* 48000 x 6.0), and no encode of a valid message ends in BUFFER_TOO_SMALL.
C30_BufferHoldsTransmission ==
    (probe.op = "callback" /\ probe.kind = "Encode" /\ IsEncodingSupported(probe.mode)) =>
        /\ probe.cap >= FullTransmission(probe.mode)
        /\ probe.ret # WSJTX_ERR_BUFFER_TOO_SMALL

\* C31: every mode the capability queries report as decodable (encodable)
\* is accepted by decode (encode) when the other arguments are valid, and
\* the compute library is called with the protocol the host's mode names:
\* the meaning of the mode survives the host enum, the native enum, the
\* cast to wsjtx_mode_t and convert_mode.
OtherArgsValid(c) ==
    /\ c.freq \in 0..MaxFrequency
    /\ c.thr \in 1..MaxThreadCount
    /\ c.op = "decode" => (c.ty \in {"f32", "i16"} /\ c.len > 0)
    /\ c.op = "encode" => c.len \in 1..MaxMessageLength

C31_ModeKeepsItsMeaning ==
    /\ (/\ lastCall.op = "decode"
        /\ lastCall.mode \in WSJTXMode
        /\ IsDecodingSupported(ConvertToWSJTXMode(lastCall.mode))
        /\ OtherArgsValid(lastCall)) => lastCall.res = "queued"
    /\ (/\ lastCall.op = "encode"
        /\ lastCall.mode \in WSJTXMode
        /\ IsEncodingSupported(ConvertToWSJTXMode(lastCall.mode))
        /\ OtherArgsValid(lastCall)) => lastCall.res = "queued"
    /\ \A t \in TaskIds :
          tasks[t].lib # NoLibCall =>
              wsjtxModeName(tasks[t].lib) = WSJTXModeName(tasks[t].mode)

\* The library called with another protocol than the host named
C31_ProtocolReplaced ==
    \E t \in TaskIds :
        /\ tasks[t].lib # NoLibCall
        /\ wsjtxModeName(tasks[t].lib) # WSJTXModeName(tasks[t].mode)

\* A mode reported as decodable whose decode is rejected
C31_DecodableRejected ==
    /\ lastCall.op = "decode"
    /\ lastCall.mode \in WSJTXMode
    /\ IsDecodingSupported(ConvertToWSJTXMode(lastCall.mode))
    /\ OtherArgsValid(lastCall)
    /\ lastCall.res # "queued"

\* C32: encode queues a worker only for the modes whose row of the
\* capability table has encodingSupported = TRUE, which are FT8 and FT4; for
\* every other valid mode the call is rejected, no worker is queued and no
\* encode worker (so no encode() of the bridge) exists for that mode.
EncodableModes == {m \in WSJTXMode : MODE_INFO(ConvertToWSJTXMode(m)).encodingSupported}

C32_EncodeOnlyEncodable ==
    /\ EncodableModes = {WSJTXMode_FT8, WSJTXMode_FT4}
    /\ lastCall.op = "encode" =>
          /\ lastCall.res = "queued" => lastCall.mode \in EncodableModes
          /\ lastCall.mode \in WSJTXMode \ EncodableModes =>
                /\ lastCall.res # "queued"
                /\ NothingScheduled(lastCall)
    /\ \A t \in TaskIds :
          tasks[t].kind = "Encode" /\ tasks[t].st # "done" =>
              /\ tasks[t].mode \in EncodableModes
              /\ tasks[t].lib \in {NoLibCall, FT8, FT4}

\* An encode for JT4 with valid arguments was rejected as unsupported.
C32_Witness ==
    /\ lastCall.op = "encode"
    /\ lastCall.mode = WSJTXMode_JT4
    /\ OtherArgsValid(lastCall)
    /\ lastCall.res = "UNSUPPORTED_MODE"
    /\ NothingScheduled(lastCall)

\* C33: after a successful encode the count the bridge reported is between
\* 0 and the capacity passed in, audioData has exactly that many samples,
\* they are the samples the bridge wrote, and the trim stays inside the
\* output buffer the worker allocated.
EncodeSucceeded(t) ==
    /\ tasks[t].kind = "Encode"
    /\ tasks[t].st = "executed"
    /\ ~tasks[t].err

C33_CountWithinCapacity ==
    \A t \in TaskIds :
        EncodeSucceeded(t) =>
            /\ tasks[t].ret = WSJTX_OK
            /\ 0 <= tasks[t].len
            /\ tasks[t].len <= tasks[t].cap
            /\ tasks[t].len = tasks[t].wr

\* An encode that succeeded with a waveform shorter than the buffer.
C33_Witness ==
    \E t \in TaskIds :
        /\ EncodeSucceeded(t)
        /\ tasks[t].len > 0
        /\ tasks[t].len < tasks[t].cap

\* C34: wsjtx_pull_message returns 1, 0 or a negative code, and when it
\* returns 0 or a negative code every field of the caller's message struct
\* (and every byte behind it) is as it was before the call.
C34_WritesOnlyOnSuccess ==
    probe.op = "wsjtx_pull_message" =>
        /\ probe.ret \in {0, 1} \/ probe.ret < 0
        /\ probe.ret # 1 =>
              /\ \A i \in 1..Len(probe.hdr) : probe.hdr[i] = probe.m
              /\ \A i \in 1..Len(probe.out) : probe.out[i] = probe.m

\* An empty queue behind a valid handle: 0 is returned and the struct still
\* holds what the caller had in it.
C34_Witness ==
    /\ probe.op = "wsjtx_pull_message"
    /\ probe.flag
    /\ probe.ret = 0
    /\ probe.m = 204
    /\ Len(probe.hdr) = 7
    /\ probe.out[MessageSize] = 204

\* The library threw inside the call and the struct is untouched.
C34_ErrorLeavesStruct ==
    /\ probe.op = "wsjtx_pull_message"
    /\ probe.flag
    /\ probe.ret < 0
    /\ probe.m = 204
    /\ probe.hdr[1] = 204

\* C35: a bridge function called with a null handle returns INVALID_HANDLE,
\* and one called with a valid handle and a null pointer argument returns
\* NULL_POINTER (wsjtx_pull_message for a null message struct, wsjtx_encode
\* for a null message, output buffer or count pointer).
C35_NullArgumentsReported ==
    probe.op \in {"wsjtx_decode", "wsjtx_encode", "wsjtx_pull_message"} =>
        /\ ~probe.flag => probe.ret = WSJTX_ERR_INVALID_HANDLE
        /\ (probe.flag /\ probe.nul # {}) => probe.ret = WSJTX_ERR_NULL_POINTER

\* wsjtx_encode does report its null pointers as NULL_POINTER.
C35_EncodeNullPointer ==
    /\ probe.op = "wsjtx_encode"
    /\ probe.flag
    /\ probe.nul = {"output_sample_count"}
    /\ probe.ret = WSJTX_ERR_NULL_POINTER

\* wsjtx_pull_message reports a null struct behind a valid handle as an
\* invalid handle.
C35_PullNullAsHandle ==
    /\ probe.op = "wsjtx_pull_message"
    /\ probe.flag
    /\ probe.nul = {"message"}
    /\ probe.ret = WSJTX_ERR_INVALID_HANDLE

\* C36: the typed wrapper's synchronous convertAudioFormat and the native
\* Convert worker give the same output for every input: every float sample
\* (halfway values of either sign and values outside [-1, 1] included) and
\* every int16 sample.
C36_SameConversion ==
    probe.op = "convertBoth" => probe.out = probe.alt

\* A negative sample whose scaled value is halfway between two integers:
\* the worker rounds it away from zero, the typed wrapper towards zero.
C36_NegativeHalfDiffers ==
    /\ probe.op = "convertBoth"
    /\ probe.flag
    /\ probe.res = "int16"
    /\ probe.inp = <<Num(-2)>>
    /\ probe.out = <<-1>>
    /\ probe.alt = <<0>>

\* Positive halfway samples, samples outside [-1, 1] and int16 samples are
\* converted alike.
C36_OthersAgree ==
    /\ probe.op = "convertBoth"
    /\ probe.flag
    /\ probe.res = "int16"
    /\ probe.inp = <<Num(2), Num(3 * One)>>
    /\ probe.out = <<1, Int16Max>>
    /\ probe.alt = probe.out

\* C37: every int16 value i in [-32768, 32767] converted to float
\* (i / 32768) and back to int16 is exactly i again.
C37_Int16RoundTripExact ==
    probe.op = "roundTripInt16" => probe.out = probe.inp

\* The lowest int16 value went to -1.0 and came back as -32768 from the
\* native worker.
C37_Witness ==
    /\ probe.op = "roundTripInt16"
    /\ probe.kind = "native"
    /\ probe.inp = <<Int16Min>>
    /\ probe.out = <<Int16Min>>

====
